---- MODULE Spec2Model ----
(***************************************************************************)
(* Model of the warehouse inventory system:                                *)
(*   - InventoryStore            (inventory_store.py)                      *)
(*   - InventoryService adapter  (inventory_server.py)                     *)
(*   - DistributedInventoryClient facade and router                        *)
(*                               (distributed_inventory.py)                *)
(* Client threads issue calls at one of the three layers.  A store call is *)
(* split at the points where another thread can run: before the lock is    *)
(* taken, between the under-lock checks and the mutation, and after the    *)
(* lock is released.                                                       *)
(***************************************************************************)
EXTENDS Integers, Sequences, FiniteSets, TLC

VARIABLES items, lock, th, ledger, logger, client, heap

vars == <<items, lock, th, ledger, logger, client, heap>>

\* ------------------------------------------------------------------ bounds
\* Largest quantity a caller passes; amounts go one further.
MaxQty == 2
MaxEndpoints == 3
MaxCloses == 3

\* ------------------------------------------------------- optional values
\* Python's None is the empty tuple, a present value v is <<v>>.
None == <<>>
Some(v) == <<v>>
IsSome(o) == o # <<>>
Val(o) == o[1]

\* ----------------------------------------------------------------- strings
\* SKU, metadata keys and metadata values are sequences of characters, so
\* that str.strip() and str.lower() are computed, not assumed.  A character
\* is its Unicode code point, ord(ch): "B " is <<66, 32>>.

\* The characters str.strip() removes, those for which str.isspace() holds:
\* \t \n \v \f \r, U+001C to U+001F, the space, U+0085, U+00A0, U+1680,
\* U+2000 to U+200A, U+2028, U+2029, U+202F, U+205F and U+3000.
Whitespace ==
    {9, 10, 11, 12, 13, 28, 29, 30, 31, 32, 133, 160, 5760}
        \cup (8192..8202) \cup {8232, 8233, 8239, 8287, 12288}

RECURSIVE LStrip(_)
LStrip(s) == IF s # <<>> /\ Head(s) \in Whitespace THEN LStrip(Tail(s)) ELSE s

RECURSIVE RStrip(_)
RStrip(s) ==
    IF s # <<>> /\ s[Len(s)] \in Whitespace
    THEN RStrip(SubSeq(s, 1, Len(s) - 1))
    ELSE s

\* str.strip(): drop leading and trailing whitespace.
Strip(s) == RStrip(LStrip(s))

\* str.lower() of one character below U+0100: the letters A to Z and the
\* capitals of Latin-1 (U+00C0 to U+00DE without the sign U+00D7) move up by
\* 32, every other character is kept.  Metadata that arrives through gRPC
\* is within U+0020 to U+007E.
LowerChar(ch) ==
    IF ch \in (65..90) \cup ((192..222) \ {215}) THEN ch + 32 ELSE ch

\* str.lower(), character by character.
Lower(s) == [i \in 1..Len(s) |-> LowerChar(s[i])]

\* ------------------------------------------------------------------- store
\* Error kinds raised by the store ("none": no error).
ValueError == "ValueError"
ItemAlreadyExistsError == "ItemAlreadyExistsError"
ItemNotFoundError == "ItemNotFoundError"
InsufficientQuantityError == "InsufficientQuantityError"
KeyError == "KeyError"
NoError == "none"

\* The empty dict.
EmptyStore == <<>>

\* Item(sku, name, description, quantity)
Item(sku, name, description, quantity) ==
    [sku |-> sku, name |-> name, description |-> description, quantity |-> quantity]

\* _clone: a deep copy; values of the model are immutable, a copy is the value.
Clone(item) == Item(item.sku, item.name, item.description, item.quantity)

\* Arguments of a store call: sku as passed, name/description/quantity
\* optional (None: omitted), amount for take.
Args(sku, name, description, quantity, amount) ==
    [sku |-> sku, name |-> name, description |-> description,
     quantity |-> quantity, amount |-> amount]

NoArgs == Args(<<>>, None, None, None, 0)

Result(err, item) == [err |-> err, item |-> item]
Pending == Result("pending", None)

\* PreLock without add_item's check of the quantity (lines 45-46 dropped).
PreLockNoQuantityCheck(op, a) ==
    CASE op = "take" ->
           IF Strip(a.sku) = <<>> THEN ValueError
           ELSE IF a.amount <= 0 THEN ValueError
           ELSE NoError
      [] op = "clear" -> NoError
      [] OTHER -> IF Strip(a.sku) = <<>> THEN ValueError ELSE NoError

\* The part of each store method that runs before `with self._lock`.
PreLock(op, a) ==
    CASE op = "add" ->
           IF Strip(a.sku) = <<>> THEN ValueError
           ELSE IF Val(a.quantity) < 0 THEN ValueError
           ELSE NoError
      [] op = "update" -> IF Strip(a.sku) = <<>> THEN ValueError ELSE NoError
      [] op = "take" ->
           IF Strip(a.sku) = <<>> THEN ValueError
           ELSE IF a.amount <= 0 THEN ValueError
           ELSE NoError
      [] op = "query" -> IF Strip(a.sku) = <<>> THEN ValueError ELSE NoError
      [] OTHER -> NoError

\* LockedCheck without add_item's test for an existing sku (lines 49-50
\* dropped).
LockedCheckNoDuplicateCheck(op, a, store) ==
    LET sku == Strip(a.sku) IN
    CASE op \in {"update", "query"} ->
           IF sku \notin DOMAIN store THEN ItemNotFoundError ELSE NoError
      [] op = "take" ->
           IF sku \notin DOMAIN store THEN ItemNotFoundError
           ELSE IF store[sku].quantity < a.amount THEN InsufficientQuantityError
           ELSE NoError
      [] OTHER -> NoError

\* LockedCheck without take_item's check of the stock (lines 95-98 dropped).
LockedCheckNoStockCheck(op, a, store) ==
    LET sku == Strip(a.sku) IN
    CASE op = "add" ->
           IF sku \in DOMAIN store THEN ItemAlreadyExistsError ELSE NoError
      [] op \in {"update", "take", "query"} ->
           IF sku \notin DOMAIN store THEN ItemNotFoundError ELSE NoError
      [] OTHER -> NoError

\* LockedCheck with take_item comparing `<=` instead of `<` (line 95).
LockedCheckOffByOne(op, a, store) ==
    LET sku == Strip(a.sku) IN
    CASE op = "add" ->
           IF sku \in DOMAIN store THEN ItemAlreadyExistsError ELSE NoError
      [] op \in {"update", "query"} ->
           IF sku \notin DOMAIN store THEN ItemNotFoundError ELSE NoError
      [] op = "take" ->
           IF sku \notin DOMAIN store THEN ItemNotFoundError
           ELSE IF store[sku].quantity <= a.amount THEN InsufficientQuantityError
           ELSE NoError
      [] OTHER -> NoError

\* The checks made under the lock before anything is written.
LockedCheck(op, a, store) ==
    LET sku == Strip(a.sku) IN
    CASE op = "add" ->
           IF sku \in DOMAIN store THEN ItemAlreadyExistsError ELSE NoError
      [] op = "update" ->
           IF sku \notin DOMAIN store THEN ItemNotFoundError ELSE NoError
      [] op = "take" ->
           IF sku \notin DOMAIN store THEN ItemNotFoundError
           ELSE IF store[sku].quantity < a.amount THEN InsufficientQuantityError
           ELSE NoError
      [] op = "query" ->
           IF sku \notin DOMAIN store THEN ItemNotFoundError ELSE NoError
      [] OTHER -> NoError

\* add_item keeping the sku as passed for the key and the stored record.
AddApplyUntrimmedKey(a, store) ==
    LET stored == Item(a.sku, Val(a.name), Val(a.description), Val(a.quantity))
    IN [store |-> (a.sku :> stored) @@ store, res |-> Result(NoError, Some(Clone(stored)))]

\* add_item assigning a new dict that holds the added item only.
AddApplyNewDict(a, store) ==
    LET sku == Strip(a.sku)
        stored == Item(sku, Val(a.name), Val(a.description), Val(a.quantity))
    IN [store |-> (sku :> stored), res |-> Result(NoError, Some(Clone(stored)))]

\* add_item, lines 51-54: store a copy with the trimmed sku, return a copy.
AddApply(a, store) ==
    LET sku == Strip(a.sku)
        stored == Item(sku, Val(a.name), Val(a.description), Val(a.quantity))
    IN [store |-> (sku :> stored) @@ store, res |-> Result(NoError, Some(Clone(stored)))]

\* update_item testing the truth value of each argument instead of
\* `is not None`: an empty string and a zero count as not provided.
UpdateApplyTruthy(a, store) ==
    LET sku == Strip(a.sku) IN
    IF sku \notin DOMAIN store
    THEN [store |-> store, res |-> Result(KeyError, None)]
    ELSE
      LET i0 == store[sku]
          i1 == IF IsSome(a.name) /\ Val(a.name) # ""
                THEN [i0 EXCEPT !.name = Val(a.name)] ELSE i0
          i2 == IF IsSome(a.description) /\ Val(a.description) # ""
                THEN [i1 EXCEPT !.description = Val(a.description)] ELSE i1
      IN IF IsSome(a.quantity) /\ Val(a.quantity) < 0
         THEN [store |-> [store EXCEPT ![sku] = i2], res |-> Result(ValueError, None)]
         ELSE LET i3 == IF IsSome(a.quantity) /\ Val(a.quantity) # 0
                        THEN [i2 EXCEPT !.quantity = Val(a.quantity)] ELSE i2
              IN [store |-> [store EXCEPT ![sku] = i3],
                  res |-> Result(NoError, Some(Clone(i3)))]

\* update_item, lines 71-81: the fields are assigned in order, and the
\* quantity is validated only after name and description were assigned.
UpdateApply(a, store) ==
    LET sku == Strip(a.sku) IN
    IF sku \notin DOMAIN store
    THEN [store |-> store, res |-> Result(KeyError, None)]
    ELSE
      LET i0 == store[sku]
          i1 == IF IsSome(a.name) THEN [i0 EXCEPT !.name = Val(a.name)] ELSE i0
          i2 == IF IsSome(a.description)
                THEN [i1 EXCEPT !.description = Val(a.description)] ELSE i1
      IN IF IsSome(a.quantity) /\ Val(a.quantity) < 0
         THEN [store |-> [store EXCEPT ![sku] = i2], res |-> Result(ValueError, None)]
         ELSE LET i3 == IF IsSome(a.quantity)
                        THEN [i2 EXCEPT !.quantity = Val(a.quantity)] ELSE i2
              IN [store |-> [store EXCEPT ![sku] = i3],
                  res |-> Result(NoError, Some(Clone(i3)))]

\* take_item deleting the item it has emptied.
TakeApplyDeleteEmptied(a, store) ==
    LET sku == Strip(a.sku) IN
    IF sku \notin DOMAIN store
    THEN [store |-> store, res |-> Result(KeyError, None)]
    ELSE LET i1 == [store[sku] EXCEPT !.quantity = @ - a.amount]
         IN [store |-> IF i1.quantity = 0
                       THEN [k \in DOMAIN store \ {sku} |-> store[k]]
                       ELSE [store EXCEPT ![sku] = i1],
             res |-> Result(NoError, Some(Clone(i1)))]

\* take_item, lines 100-101: item.quantity -= amount on the current record.
TakeApply(a, store) ==
    LET sku == Strip(a.sku) IN
    IF sku \notin DOMAIN store
    THEN [store |-> store, res |-> Result(KeyError, None)]
    ELSE LET i1 == [store[sku] EXCEPT !.quantity = @ - a.amount]
         IN [store |-> [store EXCEPT ![sku] = i1], res |-> Result(NoError, Some(Clone(i1)))]

\* query_item, line 111.
QueryApply(a, store) ==
    LET sku == Strip(a.sku) IN
    IF sku \notin DOMAIN store
    THEN [store |-> store, res |-> Result(KeyError, None)]
    ELSE [store |-> store, res |-> Result(NoError, Some(Clone(store[sku])))]

\* A clear that has removed one key only when it returns.
ClearApplyOneKey(a, store) ==
    [store |-> IF DOMAIN store = {} THEN store
               ELSE LET gone == CHOOSE k \in DOMAIN store : TRUE
                    IN [k \in DOMAIN store \ {gone} |-> store[k]],
     res |-> Result(NoError, None)]

\* clear, line 115.
ClearApply(a, store) == [store |-> EmptyStore, res |-> Result(NoError, None)]

\* The writes and the return value of a store method once its checks passed.
LockedApply(op, a, store) ==
    CASE op = "add" -> AddApply(a, store)
      [] op = "update" -> UpdateApply(a, store)
      [] op = "take" -> TakeApply(a, store)
      [] op = "query" -> QueryApply(a, store)
      [] OTHER -> ClearApply(a, store)

\* ----------------------------------------------------------------- adapter
\* Call metadata: a sequence of <<key, value>> pairs.
\* "update-quantity"
KeyUpdateQuantity == <<117, 112, 100, 97, 116, 101, 45, 113, 117, 97, 110, 116, 105, 116, 121>>
\* "Update-Quantity"
KeyUpdateQuantityMixed == <<85, 112, 100, 97, 116, 101, 45, 81, 117, 97, 110, 116, 105, 116, 121>>
\* "client-ip"
KeyClientIp == <<99, 108, 105, 101, 110, 116, 45, 105, 112>>
\* "true", "TRUE", "Yes", "1", "false", "ip"
StrTrue == <<116, 114, 117, 101>>
StrTrueUpper == <<84, 82, 85, 69>>
StrYes == <<89, 101, 115>>
StrOne == <<49>>
StrFalse == <<102, 97, 108, 115, 101>>
StrIp == <<105, 112>>

\* {key.lower(): value for key, value in metadata}.get(key, default): the
\* last pair whose lower-cased key matches wins.
RECURSIVE MetadataGet(_, _, _)
MetadataGet(md, key, default) ==
    IF md = <<>> THEN default
    ELSE LET last == md[Len(md)] IN
         IF Lower(last[1]) = key THEN last[2]
         ELSE MetadataGet(SubSeq(md, 1, Len(md) - 1), key, default)

\* The forcing test without lower-casing the marker's value.
ForceQuantityCaseSensitive(md) ==
    MetadataGet(md, KeyUpdateQuantity, <<>>) \in {<<49>>, StrTrue, <<121, 101, 115>>}

\* UpdateItem, line 115.
ForceQuantity(md) ==
    Lower(MetadataGet(md, KeyUpdateQuantity, <<>>)) \in {<<49>>, StrTrue, <<121, 101, 115>>}

\* UpdateItem, lines 117-122: an empty name or description and an unforced
\* zero quantity are passed to the store as None.
UpdateItemArgs(req, md) ==
    Args(req.sku,
         IF Val(req.name) # "" THEN req.name ELSE None,
         IF Val(req.description) # "" THEN req.description ELSE None,
         IF ForceQuantity(md) \/ Val(req.quantity) # 0 THEN req.quantity ELSE None,
         req.amount)

\* The arguments a handler passes to the store.
HandlerArgs(op, req, md) == IF op = "update" THEN UpdateItemArgs(req, md) ELSE req

\* The exceptions each handler catches, TakeItem without its clause for
\* InsufficientQuantityError.
CaughtNoInsufficientQuantity(op) ==
    CASE op = "add" -> {ValueError, ItemAlreadyExistsError}
      [] op \in {"update", "take", "query"} -> {ValueError, ItemNotFoundError}
      [] OTHER -> {}

\* The exceptions each handler catches.
Caught(op) ==
    CASE op = "add" -> {ValueError, ItemAlreadyExistsError}
      [] op = "update" -> {ValueError, ItemNotFoundError}
      [] op = "take" -> {ValueError, ItemNotFoundError, InsufficientQuantityError}
      [] op = "query" -> {ValueError, ItemNotFoundError}
      [] OTHER -> {}

\* The status the handler ends with: OK with a response, or context.abort.
StatusCode(op, err) ==
    IF err = NoError THEN "OK"
    ELSE IF err \notin Caught(op) THEN "UNKNOWN"
    ELSE CASE err = ValueError -> "INVALID_ARGUMENT"
           [] err = ItemAlreadyExistsError -> "ALREADY_EXISTS"
           [] err = ItemNotFoundError -> "NOT_FOUND"
           [] OTHER -> "FAILED_PRECONDITION"

\* ------------------------------------------------------------------ router
Endpoints == <<"endpoint-a", "endpoint-b">>
NumNodes == Len(Endpoints)
Nodes == 0..(NumNodes - 1)

\* "A", "B", "B ", " ", "B" after a vertical tab, "B" after the em space
\* U+2003.
SkuA == <<65>>
SkuB == <<66>>
SkuBsp == <<66, 32>>
SkuBlank == <<32>>
SkuVtB == <<11, 66>>
SkuEmB == <<8195, 66>>

\* hashlib.sha256(sku.encode("utf-8")).digest()[:8], tabulated for the SKU
\* strings of the model.
Sha256Prefix(sku) ==
    CASE sku = SkuA -> <<85, 154, 234, 208, 130, 100, 213, 121>>
      [] sku = SkuB -> <<223, 126, 112, 229, 2, 21, 68, 244>>
      [] sku = SkuBsp -> <<212, 92, 14, 206, 245, 72, 7, 73>>
      [] sku = SkuBlank -> <<54, 169, 231, 241, 201, 91, 130, 255>>
      [] sku = SkuVtB -> <<148, 5, 213, 200, 239, 188, 226, 78>>
      [] sku = SkuEmB -> <<116, 89, 67, 51, 146, 19, 157, 155>>
      [] sku = <<>> -> <<227, 176, 196, 66, 152, 252, 28, 20>>

\* int.from_bytes(bytes, "big") % n, reduced byte by byte so that no
\* intermediate value exceeds the checker's integers.
RECURSIVE FromBytesMod(_, _)
FromBytesMod(bytes, n) ==
    IF bytes = <<>> THEN 0
    ELSE (FromBytesMod(SubSeq(bytes, 1, Len(bytes) - 1), n) * 256 + bytes[Len(bytes)]) % n

\* A router that sends every sku to the first node.
SelectIndexFirstNode(sku) == 0

\* _select_index, lines 55-58, on the facade of the test cluster.
SelectIndex(sku) == FromBytesMod(Sha256Prefix(sku), NumNodes)

EndpointForSku(sku) == Endpoints[SelectIndex(sku) + 1]

\* The errors Python raises for a modulo by zero and for an index outside
\* a list.
ZeroDivisionError == "ZeroDivisionError"
IndexError == "IndexError"

\* _select_index reducing modulo one more than the number of stubs.
SelectIndexOfOneMore(sku, stubs) ==
    Some(FromBytesMod(Sha256Prefix(sku), Len(stubs) + 1))

\* _select_index on a facade whose stub list is stubs: the index, or None
\* when the modulo by len(stubs) raises ZeroDivisionError.
SelectIndexOf(sku, stubs) ==
    IF Len(stubs) = 0 THEN None
    ELSE Some(FromBytesMod(Sha256Prefix(sku), Len(stubs)))

\* list[index] for the index _select_index gave, or the error raised.
ListGet(list, index) ==
    IF index = None THEN ZeroDivisionError
    ELSE IF Val(index) \in 0..(Len(list) - 1) THEN list[Val(index) + 1]
    ELSE IndexError

\* ------------------------------------------------------------------ facade
ForcingMarker == <<KeyUpdateQuantity, StrTrue>>

\* _extend_metadata: None and the empty list are both the empty sequence.
ExtendMetadata(md, extra) == md \o extra

\* The facade call a client made: name/description/quantity as passed
\* (None: omitted), the caller's metadata, and the item update_item queried
\* (None before the query returned).
FCall(op, name, description, quantity, md, current) ==
    [op |-> op, name |-> name, description |-> description, quantity |-> quantity,
     meta |-> md, current |-> current]

NoFCall == FCall("none", None, None, None, <<>>, None)

\* An UpdateItem request that leaves the omitted fields at the message's
\* defaults instead of filling them from the queried item.
UpdateRequestNoFill(sku, current, f) ==
    Args(sku,
         Some(IF IsSome(f.name) THEN Val(f.name) ELSE ""),
         Some(IF IsSome(f.description) THEN Val(f.description) ELSE ""),
         Some(IF IsSome(f.quantity) THEN Val(f.quantity) ELSE 0),
         0)

\* update_item, lines 105-116: the UpdateItem request built from the queried
\* item and the caller's arguments.
UpdateRequest(sku, current, f) ==
    Args(sku,
         Some(IF IsSome(f.name) THEN Val(f.name) ELSE current.name),
         Some(IF IsSome(f.description) THEN Val(f.description) ELSE current.description),
         Some(IF IsSome(f.quantity) THEN Val(f.quantity) ELSE current.quantity),
         0)

\* The caller's metadata passed on without the forcing marker.
UpdateMetadataCallerOnly(f) == f.meta

\* update_item, line 110.
UpdateMetadata(f) == ExtendMetadata(f.meta, <<ForcingMarker>>)

\* -------------------------------------------------------------- references
\* One store with its items as objects: objs maps each live Item object to
\* its value, keys is InventoryStore._items (sku to object), arg is the
\* object the caller passed to its last add_item, ret the object its last
\* call returned, and last names the last thing the caller did.  pend is the
\* add_item that is running: where it is (pc) and its local variable sku.
NoAdd == [pc |-> "none", sku |-> <<>>]
EmptyHeap ==
    [objs |-> <<>>, keys |-> <<>>, arg |-> None, ret |-> None, last |-> "none",
     pend |-> NoAdd]

\* The smallest number that names no live object.
FreshId(h) ==
    CHOOSE i \in 1..(Cardinality(DOMAIN h.objs) + 1) :
        /\ i \notin DOMAIN h.objs
        /\ \A j \in 1..(i - 1) : j \in DOMAIN h.objs

\* Item(): a new object with the given value.
NewObject(h, value) ==
    [h |-> [h EXCEPT !.objs = (FreshId(h) :> value) @@ @], id |-> FreshId(h)]

\* A _clone that returns the object it was given.
CloneRefAlias(h, id) == [h |-> h, id |-> id]

\* _clone, lines 27-31: a new object with the value of the given one.
CloneRef(h, id) == NewObject(h, h.objs[id])

\* The store as values: what query_item returns for each sku.
View(h) == [k \in DOMAIN h.keys |-> h.objs[h.keys[k]]]

\* Objects that neither the store nor the caller refers to are gone.
Collect(h) ==
    LET live == {h.keys[k] : k \in DOMAIN h.keys}
                \cup (IF IsSome(h.arg) THEN {Val(h.arg)} ELSE {})
                \cup (IF IsSome(h.ret) THEN {Val(h.ret)} ELSE {})
    IN [h EXCEPT !.objs = [i \in live |-> h.objs[i]]]

\* The error a store method raises before it writes, if any.
RefError(op, a, h) ==
    IF PreLock(op, a) # NoError THEN PreLock(op, a) ELSE LockedCheck(op, a, View(h))

\* add_item, lines 42-44, on an Item the caller built with the given value:
\* the sku of the argument is read and stripped, and an empty one ends the
\* call with ValueError.
RefAddReadSku(h0, value) ==
    LET made == NewObject([h0 EXCEPT !.arg = None, !.ret = None], value)
        h1 == [made.h EXCEPT !.arg = Some(made.id)]
        sku == Strip(h1.objs[made.id].sku)
    IN IF sku = <<>> THEN h1
       ELSE [h1 EXCEPT !.pend = [pc |-> "quantity", sku |-> sku]]

\* add_item, lines 45-46: the quantity of the argument is read, and a
\* negative one ends the call with ValueError.
RefAddReadQuantity(h) ==
    IF h.objs[Val(h.arg)].quantity < 0 THEN [h EXCEPT !.pend = NoAdd]
    ELSE [h EXCEPT !.pend.pc = "store"]

\* add_item, lines 48-54, with the lock: the local sku is looked up, the
\* argument is cloned as it is now, the clone gets the local sku and is
\* stored under it, and a clone of the stored object is returned.
RefAddStore(h) ==
    LET sku == h.pend.sku
        h1 == [h EXCEPT !.pend = NoAdd]
    IN IF sku \in DOMAIN h1.keys THEN h1
       ELSE LET stored == CloneRef(h1, Val(h1.arg))
                h2 == [stored.h EXCEPT !.objs[stored.id].sku = sku,
                                       !.keys = (sku :> stored.id) @@ @]
                returned == CloneRef(h2, stored.id)
            IN [returned.h EXCEPT !.ret = Some(returned.id)]

\* update_item (lines 56-81) and take_item (lines 83-101): the stored object
\* is changed in place and a clone of it is returned.
RefChangeItem(h0, op, a) ==
    LET h1 == [h0 EXCEPT !.arg = None, !.ret = None] IN
    IF RefError(op, a, h1) # NoError THEN h1
    ELSE LET sku == Strip(a.sku)
             id == h1.keys[sku]
             r == LockedApply(op, a, View(h1))
             h2 == [h1 EXCEPT !.objs[id] = r.store[sku]]
         IN IF r.res.err # NoError THEN h2
            ELSE LET returned == CloneRef(h2, id)
                 IN [returned.h EXCEPT !.ret = Some(returned.id)]

\* query_item, lines 103-111.
RefQueryItem(h0, a) ==
    LET h1 == [h0 EXCEPT !.arg = None, !.ret = None] IN
    IF RefError("query", a, h1) # NoError THEN h1
    ELSE LET returned == CloneRef(h1, h1.keys[Strip(a.sku)])
         IN [returned.h EXCEPT !.ret = Some(returned.id)]

RefSkus == {SkuA, SkuBsp}
RefItems ==
    [sku : RefSkus \cup {SkuBlank}, name : {"n1"}, description : {"d1"},
     quantity : {-1, MaxQty}]
\* The values a caller gives an Item it holds.
CallerItems ==
    [sku : {SkuA, SkuB}, name : {"changed"}, description : {"d1"}, quantity : 0..MaxQty]

\* The caller builds an Item and calls add_item with it: lines 42-44.
RefAdd ==
    /\ heap.pend.pc = "none"
    /\ \E value \in RefItems :
         heap' = Collect([RefAddReadSku(heap, value) EXCEPT !.last = "add"])
    /\ UNCHANGED <<items, lock, th, ledger, logger, client>>

\* The running add_item goes on to lines 45-46.
RefAddQuantity ==
    /\ heap.pend.pc = "quantity"
    /\ heap' = Collect([RefAddReadQuantity(heap) EXCEPT !.last = "add"])
    /\ UNCHANGED <<items, lock, th, ledger, logger, client>>

\* The running add_item takes the lock and goes through lines 48-54.
RefAddLocked ==
    /\ heap.pend.pc = "store"
    /\ heap' = Collect([RefAddStore(heap) EXCEPT !.last = "add"])
    /\ UNCHANGED <<items, lock, th, ledger, logger, client>>

RefUpdate ==
    /\ heap.pend.pc = "none"
    /\ \E sku \in RefSkus, name \in {None, Some("n2")}, quantity \in {None, Some(0), Some(MaxQty)} :
         heap' = Collect([RefChangeItem(heap, "update", Args(sku, name, None, quantity, 0))
                            EXCEPT !.last = "update"])
    /\ UNCHANGED <<items, lock, th, ledger, logger, client>>

RefTake ==
    /\ heap.pend.pc = "none"
    /\ \E sku \in RefSkus, amount \in 1..MaxQty :
         heap' = Collect([RefChangeItem(heap, "take", Args(sku, None, None, None, amount))
                            EXCEPT !.last = "take"])
    /\ UNCHANGED <<items, lock, th, ledger, logger, client>>

RefQuery ==
    /\ heap.pend.pc = "none"
    /\ \E sku \in RefSkus :
         heap' = Collect([RefQueryItem(heap, Args(sku, None, None, None, 0))
                            EXCEPT !.last = "query"])
    /\ UNCHANGED <<items, lock, th, ledger, logger, client>>

\* The caller assigns to the fields of the Item its last call returned.
MutateReturned ==
    /\ heap.pend.pc = "none"
    /\ IsSome(heap.ret)
    /\ \E value \in CallerItems :
         heap' = [heap EXCEPT !.objs[Val(heap.ret)] = value, !.last = "mutate returned"]
    /\ UNCHANGED <<items, lock, th, ledger, logger, client>>

\* The caller assigns to the fields of the Item it passed to add_item, after
\* the call or from another thread while the call runs.
MutateArgument ==
    /\ IsSome(heap.arg)
    /\ \E value \in CallerItems :
         heap' = [heap EXCEPT !.objs[Val(heap.arg)] = value, !.last = "mutate argument"]
    /\ UNCHANGED <<items, lock, th, ledger, logger, client>>

\* ---------------------------------------------------------- facade object
\* A DistributedInventoryClient after __init__ (lines 28-42): the endpoint
\* list, one stub per endpoint (stood for by its endpoint) and one closer per
\* connection (stood for by the connection's number).  A closer is what the
\* stub factory returned or channel.close: raising is the set of connections
\* whose closer raises when it is invoked.  Kept with it: how often each
\* connection's closer was invoked (calls), how many times close ran
\* (closes), how the last close ended (raised), what endpoint_for_sku
\* returned for each sku (routed) and the stubs its operations used for each
\* sku (sent).
RouteSkus == {SkuA, SkuB, SkuBsp}

NewClient(endpoints) ==
    [endpoints |-> endpoints, stubs |-> endpoints,
     closers |-> [i \in 1..Len(endpoints) |-> i],
     raising |-> {},
     calls |-> [i \in 1..Len(endpoints) |-> 0], closes |-> 0, raised |-> NoError,
     routed |-> [sku \in RouteSkus |-> {}], sent |-> [sku \in RouteSkus |-> {}]]

\* The number of times connection i occurs in a list of closers.
RECURSIVE Occurrences(_, _)
Occurrences(closers, i) ==
    IF closers = <<>> THEN 0
    ELSE (IF Head(closers) = i THEN 1 ELSE 0) + Occurrences(Tail(closers), i)

\* The exception of a closer that raises.
CloserError == "CloserError"

\* The position in the list of the first closer that raises, 0 when none
\* does.
FirstRaising(cl) ==
    LET at == { j \in 1..Len(cl.closers) : cl.closers[j] \in cl.raising }
    IN IF at = {} THEN 0 ELSE CHOOSE j \in at : \A k \in at : j <= k

\* The closers the loop of close invokes (lines 45-46): those of the list up
\* to and with the first one that raises.
Invoked(cl) ==
    IF FirstRaising(cl) = 0 THEN cl.closers
    ELSE SubSeq(cl.closers, 1, FirstRaising(cl))

\* close that also empties the stub list.
CloseClientDropStubs(cl) ==
    [cl EXCEPT !.calls = [i \in DOMAIN @ |-> @[i] + Occurrences(Invoked(cl), i)],
               !.closers = <<>>, !.stubs = <<>>,
               !.raised = IF FirstRaising(cl) = 0 THEN NoError ELSE CloserError,
               !.closes = @ + 1]

\* close, lines 44-47: the closers of the list are invoked in order.  When
\* none raises the list is cleared; when one raises, its exception leaves
\* close at line 46, the closers after it are not invoked and the list is
\* left as it is.
CloseClient(cl) ==
    [cl EXCEPT !.calls = [i \in DOMAIN @ |-> @[i] + Occurrences(Invoked(cl), i)],
               !.closers = IF FirstRaising(cl) = 0 THEN <<>> ELSE @,
               !.raised = IF FirstRaising(cl) = 0 THEN NoError ELSE CloserError,
               !.closes = @ + 1]

\* endpoint_for_sku, lines 60-61.
EndpointOf(cl, sku) == ListGet(cl.endpoints, SelectIndexOf(sku, cl.stubs))

\* A _stub_for that returns the first stub for every sku.
StubOfFirst(cl, sku) == ListGet(cl.stubs, Some(0))

\* _stub_for, lines 63-64.
StubOf(cl, sku) == ListGet(cl.stubs, SelectIndexOf(sku, cl.stubs))

Facades == {"f1", "f2"}

\* close() is called on facade f.
Close(f) ==
    /\ client[f].closes < MaxCloses
    /\ client' = [client EXCEPT ![f] = CloseClient(@)]
    /\ UNCHANGED <<items, lock, th, ledger, logger, heap>>

\* The with-block of facade f is left: __exit__ calls close (lines 52-53).
ExitWith(f) ==
    /\ client[f].closes < MaxCloses
    /\ client' = [client EXCEPT ![f] = CloseClient(@)]
    /\ UNCHANGED <<items, lock, th, ledger, logger, heap>>

\* endpoint_for_sku(sku) is called on facade f.
Route(f, sku) ==
    /\ client' = [client EXCEPT ![f].routed[sku] =
                     @ \cup {[index |-> SelectIndexOf(sku, client[f].stubs),
                              endpoint |-> EndpointOf(client[f], sku)]}]
    /\ UNCHANGED <<items, lock, th, ledger, logger, heap>>

\* An operation on sku is called on facade f: it picks its stub with
\* _stub_for and changes no field of the facade.
Dispatch(f, sku) ==
    /\ client' = [client EXCEPT ![f].sent[sku] = @ \cup {StubOf(client[f], sku)}]
    /\ UNCHANGED <<items, lock, th, ledger, logger, heap>>

\* ----------------------------------------------------------------- logging
\* The outcome of a remote call: a status code and, with OK, the item of the
\* response.
Outcome(code, item) == [code |-> code, item |-> item]
NoOutcome == Outcome("none", None)

\* InventoryService._logger_endpoint: None, or the collaborator's endpoint.
LoggerEndpoint == Some("logger")

\* How the collaborator answers LogOperation, when it answers: it accepts
\* the event, it raises an error, or it cannot be reached.
Replies == {"ok", "error", "unavailable"}
RpcError == "RpcError"

\* _get_client_ip: dict(metadata).get('client-ip', 'unknown'), the key
\* compared as it is.
RECURSIVE ClientIp(_)
ClientIp(md) ==
    IF md = <<>> THEN <<117, 110, 107, 110, 111, 119, 110>>  \* "unknown"
    ELSE LET last == md[Len(md)] IN
         IF last[1] = KeyClientIp THEN last[2]
         ELSE ClientIp(SubSeq(md, 1, Len(md) - 1))

OperationName(op) ==
    CASE op = "add" -> "AddItem"
      [] op = "update" -> "UpdateItem"
      [] op = "take" -> "TakeItem"
      [] OTHER -> "QueryItem"

\* An event that reports every call as a success without an error message.
LogRequestAlwaysSuccess(op, req, md, res) ==
    [service_name |-> "InventoryService", operation |-> OperationName(op),
     client_ip |-> ClientIp(md), success |-> TRUE,
     request |-> req, response |-> res.item, error_message |-> ""]

\* _log_operation, lines 67-75: the event of a call whose store method ended
\* with res; the error message is stood for by the error.
LogRequest(op, req, md, res) ==
    [service_name |-> "InventoryService", operation |-> OperationName(op),
     client_ip |-> ClientIp(md), success |-> res.err = NoError,
     request |-> req, response |-> res.item,
     error_message |-> IF res.err = NoError THEN "" ELSE res.err]

\* A _log_operation whose LogOperation call is not inside try/except.
LogOperationUnguarded(reply) == IF reply = "ok" THEN NoError ELSE RpcError

\* _log_operation, lines 77-83: what the handler sees of the collaborator's
\* answer; every exception is caught and logged locally.
LogOperation(reply) == NoError

\* The outcome of a handler whose store method ended with res and whose
\* _log_operation raised `raised`: the response, the abort with the mapped
\* code, or the failure of the call with the exception that escaped.
HandlerOutcome(op, res, raised) ==
    IF raised # NoError THEN Outcome("UNKNOWN", None)
    ELSE Outcome(StatusCode(op, res.err), res.item)

\* ----------------------------------------------------------------- threads
Clients == {"c1", "c2"}
NoOwner == "free"

\* One client thread: where it is in its call (pc), the layer it entered at,
\* the store method it is running, the node, the request and metadata of the
\* remote call (or the arguments of the direct store call), the facade call it
\* serves, the store's result, and, when the call follows an add_item of the
\* same client, the item that was added.  A remote call also has the outcome
\* its handler ended with (out), the audit events the handler sent (log) and
\* the collaborator's answer to the last of them (reply).
Frame(pc, layer, op, node, req, md, f, res, prev) ==
    [pc |-> pc, layer |-> layer, op |-> op, node |-> node, req |-> req,
     meta |-> md, fcall |-> f, res |-> res, prev |-> prev,
     out |-> NoOutcome, log |-> <<>>, reply |-> "none"]

Idle == Frame("idle", "none", "none", 0, NoArgs, <<>>, NoFCall, Pending, None)

\* The arguments the store method of thread t is called with.
StoreArgs(t) == IF t.layer = "store" THEN t.req ELSE HandlerArgs(t.op, t.req, t.meta)

\* Where a thread goes when its store method has returned or raised.
AfterStore(t) == IF t.layer = "store" THEN "done" ELSE "log"

\* Enter a store method: run the part before the lock.
Enter(layer, op, node, req, md, f, prev) ==
    LET t == Frame("wait", layer, op, node, req, md, f, Pending, prev)
        e == PreLock(op, StoreArgs(t))
    IN IF e = NoError THEN t
       ELSE [t EXCEPT !.pc = AfterStore(t), !.res = Result(e, None)]

\* A store whose methods do not wait for the lock.
CanAcquireUnlocked(n, c) == TRUE

\* threading.RLock: free, or owned by one thread.  No method calls another
\* while holding the lock, so the owner never re-enters.
CanAcquire(n, c) == lock[n] = NoOwner

\* A store that releases its lock on return only, not when a method raises.
UnlockOnReturnOnly(n, err) ==
    IF err = NoError THEN [lock EXCEPT ![n] = NoOwner] ELSE lock

\* The end of `with self._lock`: the lock of node n's store is released,
\* whether the block returned or raised err.
Unlock(n, err) == [lock EXCEPT ![n] = NoOwner]

\* The request the facade sends for add_item, take_item and query_item.
FacadeRequest(op, sku, name, description, quantity, amount) ==
    CASE op = "add" -> Args(sku, name, description, quantity, 0)
      [] op = "take" -> Args(sku, Some(""), Some(""), Some(0), amount)
      [] OTHER -> Args(sku, Some(""), Some(""), Some(0), 0)

\* ------------------------------------------------------------------ ledger
\* History of each stored item, kept when ledger.on: the quantity the last
\* add or quantity-changing update left (base), the sum of the amounts of the
\* takes that succeeded since (taken), and, when that update was the write
\* of a facade update_item that sent the quantity it had queried (writeback),
\* the quantity it replaced (over; None otherwise).
Account(base, taken, over) == [base |-> base, taken |-> taken, over |-> over]

Track(acct, op, a, store, r, writeback) ==
    LET sku == Strip(a.sku) IN
    IF r.res.err # NoError THEN acct
    ELSE CASE op = "add" -> (sku :> Account(r.store[sku].quantity, 0, None)) @@ acct
           [] op = "update" ->
                IF r.store[sku].quantity = store[sku].quantity THEN acct
                ELSE [acct EXCEPT ![sku] =
                        Account(r.store[sku].quantity, 0,
                                IF writeback THEN Some(store[sku].quantity) ELSE None)]
           [] op = "take" -> [acct EXCEPT ![sku].taken = @ + a.amount]
           [] op = "query" -> acct
           [] OTHER -> EmptyStore

\* ----------------------------------------------------------------- actions
\* A client calls a method of node n's InventoryStore directly.
StoreCall(c, n, op, a) ==
    /\ th[c].pc = "idle"
    /\ th' = [th EXCEPT ![c] = Enter("store", op, n, a, <<>>, NoFCall, None)]
    /\ UNCHANGED <<items, lock, ledger, logger, client, heap>>

\* A client calls AddItem, UpdateItem, TakeItem or QueryItem of node n.
AdapterCall(c, n, op, req, md) ==
    /\ th[c].pc = "idle"
    /\ th' = [th EXCEPT ![c] = Enter("adapter", op, n, req, md, NoFCall, None)]
    /\ UNCHANGED <<items, lock, ledger, logger, client, heap>>

\* A client calls add_item, take_item or query_item of the facade: one
\* remote call to the node selected for the sku.
FacadeCall(c, op, sku, name, description, quantity, amount, md) ==
    /\ th[c].pc = "idle"
    /\ op \in {"add", "take", "query"}
    /\ th' = [th EXCEPT ![c] =
                Enter("facade", op, SelectIndex(sku),
                      FacadeRequest(op, sku, name, description, quantity, amount),
                      md, FCall(op, None, None, None, md, None), None)]
    /\ UNCHANGED <<items, lock, ledger, logger, client, heap>>

\* A client calls update_item of the facade, which starts with query_item
\* (line 104).
FacadeUpdateCall(c, sku, name, description, quantity, md) ==
    /\ th[c].pc = "idle"
    /\ th' = [th EXCEPT ![c] =
                Enter("facade", "query", SelectIndex(sku),
                      FacadeRequest("query", sku, None, None, None, 0),
                      md, FCall("update", name, description, quantity, md, None), None)]
    /\ UNCHANGED <<items, lock, ledger, logger, client, heap>>

\* `with self._lock`: the thread takes the lock of its node's store.
Acquire(c) ==
    /\ th[c].pc = "wait"
    /\ CanAcquire(th[c].node, c)
    /\ lock' = [lock EXCEPT ![th[c].node] = c]
    /\ th' = [th EXCEPT ![c].pc = "check"]
    /\ UNCHANGED <<items, ledger, logger, client, heap>>

\* The checks under the lock; a failed check raises, which releases the lock.
Check(c) ==
    /\ th[c].pc = "check"
    /\ LET t == th[c]
           e == LockedCheck(t.op, StoreArgs(t), items[t.node])
       IN IF e = NoError
          THEN /\ th' = [th EXCEPT ![c].pc = "apply"]
               /\ UNCHANGED lock
          ELSE /\ th' = [th EXCEPT ![c].pc = AfterStore(t), ![c].res = Result(e, None)]
               /\ lock' = Unlock(t.node, e)
    /\ UNCHANGED <<items, ledger, logger, client, heap>>

\* The writes and the return (or the late raise of update_item), which
\* releases the lock.
Apply(c) ==
    /\ th[c].pc = "apply"
    /\ LET t == th[c]
           r == LockedApply(t.op, StoreArgs(t), items[t.node])
       IN /\ items' = [items EXCEPT ![t.node] = r.store]
          /\ th' = [th EXCEPT ![c].pc = AfterStore(t), ![c].res = r.res]
          /\ lock' = Unlock(t.node, r.res.err)
          /\ ledger' =
               IF ledger.on
               THEN [ledger EXCEPT !.acct[t.node] =
                       Track(@, t.op, StoreArgs(t), items[t.node], r,
                             t.fcall.op = "update" /\ t.fcall.quantity = None)]
               ELSE ledger
    /\ UNCHANGED <<logger, client, heap>>

\* Where a remote call goes when its handler ended with outcome out: the
\* facade's update_item goes on to its UpdateItem call when its query
\* succeeded, every other call returns to the caller.
AfterHandler(t, out) ==
    IF t.layer = "facade" /\ t.fcall.op = "update" /\ t.op = "query" /\ out.code = "OK"
    THEN "fupdate" ELSE "done"

\* The handler has its response or its abort and calls _log_operation: with
\* no logger endpoint that returns at once and the handler ends; with one,
\* the event is sent and the handler waits for the collaborator's answer.
Respond(c) ==
    /\ th[c].pc = "log"
    /\ LET t == th[c]
           out == HandlerOutcome(t.op, t.res, NoError) IN
       IF logger[t.node] = None
       THEN th' = [th EXCEPT ![c].pc = AfterHandler(t, out), ![c].out = out]
       ELSE th' = [th EXCEPT ![c].pc = "logwait",
                             ![c].log = Append(t.log, LogRequest(t.op, t.req, t.meta, t.res))]
    /\ UNCHANGED <<items, lock, ledger, logger, client, heap>>

\* The collaborator answers LogOperation; the handler ends.
LogReply(c) ==
    /\ th[c].pc = "logwait"
    /\ \E reply \in Replies :
         LET t == th[c]
             out == HandlerOutcome(t.op, t.res, LogOperation(reply)) IN
         th' = [th EXCEPT ![c].pc = AfterHandler(t, out), ![c].out = out,
                          ![c].reply = reply]
    /\ UNCHANGED <<items, lock, ledger, logger, client, heap>>

\* update_item, lines 105-121: build the request from the queried item and
\* call UpdateItem on the node selected for the sku.
FacadeUpdate(c) ==
    /\ th[c].pc = "fupdate"
    /\ LET t == th[c] IN
       th' = [th EXCEPT ![c] =
                Enter("facade", "update", SelectIndex(t.req.sku),
                      UpdateRequest(t.req.sku, Val(t.out.item), t.fcall),
                      UpdateMetadata(t.fcall),
                      [t.fcall EXCEPT !.current = t.out.item], None)]
    /\ UNCHANGED <<items, lock, ledger, logger, client, heap>>

\* The client that added an item queries it at once, with the sku string it
\* passed to the add, at the layer it added it.
QueryAdded(c) ==
    /\ th[c].pc = "done"
    /\ th[c].op = "add"
    /\ th[c].res.err = NoError
    /\ LET t == th[c] IN
       th' = [th EXCEPT ![c] =
                Enter(t.layer, "query",
                      IF t.layer = "facade" THEN SelectIndex(t.req.sku) ELSE t.node,
                      IF t.layer = "store"
                      THEN Args(t.req.sku, None, None, None, 0)
                      ELSE FacadeRequest("query", t.req.sku, None, None, None, 0),
                      <<>>,
                      IF t.layer = "facade"
                      THEN FCall("query", None, None, None, <<>>, None) ELSE NoFCall,
                      Some(t.req))]
    /\ UNCHANGED <<items, lock, ledger, logger, client, heap>>

\* The call has returned to the client.
Return(c) ==
    /\ th[c].pc = "done"
    /\ th' = [th EXCEPT ![c] = Idle]
    /\ UNCHANGED <<items, lock, ledger, logger, client, heap>>

\* ------------------------------------------------------------------ inputs
Optional(S) == {None} \cup {Some(v) : v \in S}
Quantities == (-1)..MaxQty
Amounts == 0..(MaxQty + 1)
StoreOps == {"add", "update", "take", "query", "clear"}

\* The node whose store and adapter are also called directly; the facade
\* reaches every node.
DirectNodes == {SelectIndex(SkuA)}

\* The direct store calls: each method with the arguments it has (the
\* others stay at their defaults).
StoreInputsOver(skus, optNames, optDescriptions) ==
    LET In(op, sku, name, description, quantity, amount) ==
            [op |-> op, sku |-> sku, name |-> name, description |-> description,
             quantity |-> quantity, amount |-> amount]
    IN { In("add", sku, name, description, Some(q), 0) :
           sku \in skus, name \in optNames \ {None},
           description \in optDescriptions \ {None}, q \in Quantities }
       \cup { In("update", sku, name, description, quantity, 0) :
                sku \in skus, name \in optNames, description \in optDescriptions,
                quantity \in Optional(Quantities) }
       \cup { In("take", sku, None, None, None, amount) : sku \in skus, amount \in Amounts }
       \cup { In("query", sku, None, None, None, 0) : sku \in skus }
       \cup { In("clear", <<>>, None, None, None, 0) }

\* The remote calls: each request with the fields it has (the others stay
\* at their defaults); only UpdateItem reads the metadata.
AdapterInputsOver(skus, names, descriptions, mds) ==
    LET In(op, sku, name, description, quantity, amount, md) ==
            [op |-> op, sku |-> sku, name |-> name, description |-> description,
             quantity |-> quantity, amount |-> amount, meta |-> md]
    IN { In("add", sku, name, description, q, 0, <<>>) :
           sku \in skus, name \in names, description \in descriptions, q \in Quantities }
       \cup { In("update", sku, name, description, q, 0, md) :
                sku \in skus, name \in names, description \in descriptions,
                q \in Quantities, md \in mds }
       \cup { In("take", sku, "", "", 0, amount, <<>>) : sku \in skus, amount \in Amounts }
       \cup { In("query", sku, "", "", 0, 0, <<>>) : sku \in skus }

FacadeInputsOver(skus, names, descriptions) ==
    { x \in AdapterInputsOver(skus, names, descriptions, {<<>>}) : x.op # "update" }

FacadeUpdateInputsOver(skus, optNames, optDescriptions, mds) ==
    [sku : skus, name : optNames, description : optDescriptions,
     quantity : Optional(Quantities), meta : mds]

\* A second item of the store, which is only added and queried.
Bystander == [sku |-> SkuA, name |-> "n1", description |-> "d1", quantity |-> 1]

BystanderInputs ==
    { [op |-> "add", sku |-> Bystander.sku, name |-> Bystander.name,
       description |-> Bystander.description, quantity |-> Bystander.quantity,
       amount |-> 0, meta |-> <<>>],
      [op |-> "query", sku |-> Bystander.sku, name |-> "", description |-> "",
       quantity |-> 0, amount |-> 0, meta |-> <<>>] }

\* One sequential client with the full range of arguments.
Skus == {SkuB, SkuBsp, SkuBlank}
Names == {"", "n1"}
Descriptions == {"", "d1"}
Metadatas ==
    { <<>>,
      <<<<KeyUpdateQuantity, StrOne>>>>,
      <<<<KeyUpdateQuantityMixed, StrYes>>>>,
      <<<<KeyUpdateQuantity, StrTrueUpper>>, <<KeyClientIp, StrIp>>>>,
      <<<<KeyUpdateQuantity, StrFalse>>>> }
CallerMetadatas == { <<>>, <<<<KeyUpdateQuantity, StrFalse>>>> }

StoreInputs == StoreInputsOver(Skus, Optional(Names), Optional(Descriptions))
AdapterInputs == AdapterInputsOver(Skus, Names, Descriptions, Metadatas)
FacadeInputs == FacadeInputsOver(Skus, Names, Descriptions) \cup BystanderInputs
FacadeUpdateInputs ==
    FacadeUpdateInputsOver(Skus, Optional(Names), Optional(Descriptions), CallerMetadatas)

\* Two concurrent clients working on one SKU of one node: the store is
\* called directly with quantities only and with invalid arguments too, the
\* adapter for TakeItem and the facade for every method, both with valid
\* quantities and amounts.
ConcSkus == {SkuBsp}
ConcNames == {"n1"}
ConcDescriptions == {"d1"}

ConcStoreInputs ==
    { x \in StoreInputsOver(ConcSkus, {None, Some("n1")}, {None, Some("d1")}) :
        x.op = "update" => x.name = None /\ x.description = None }
ConcAdapterInputs ==
    { x \in AdapterInputsOver(ConcSkus, ConcNames, ConcDescriptions, {<<>>}) :
        x.op = "take" /\ x.amount > 0 }
ConcFacadeInputs ==
    { x \in FacadeInputsOver(ConcSkus, ConcNames, ConcDescriptions) :
        /\ x.op = "add" => x.quantity >= 0
        /\ x.op = "take" => x.amount > 0 }
ConcFacadeUpdateInputs ==
    { x \in FacadeUpdateInputsOver(ConcSkus, {None}, {None}, {<<>>}) :
        IsSome(x.quantity) => Val(x.quantity) >= 0 }

\* The calls a client may start, drawn from the given sets of inputs.
StartCall(c, storeIn, adapterIn, facadeIn, updateIn) ==
    /\ th[c].pc = "idle"
    /\ \/ \E n \in DirectNodes, x \in storeIn :
            StoreCall(c, n, x.op,
                      Args(x.sku, x.name, x.description, x.quantity, x.amount))
       \/ \E n \in DirectNodes, x \in adapterIn :
            AdapterCall(c, n, x.op,
                        Args(x.sku, Some(x.name), Some(x.description), Some(x.quantity),
                             x.amount), x.meta)
       \/ \E x \in facadeIn :
            FacadeCall(c, x.op, x.sku, Some(x.name), Some(x.description),
                       Some(x.quantity), x.amount, x.meta)
       \/ \E x \in updateIn :
            FacadeUpdateCall(c, x.sku, x.name, x.description, x.quantity, x.meta)

Call(c) == StartCall(c, StoreInputs, AdapterInputs, FacadeInputs, FacadeUpdateInputs)

ConcCall(c) ==
    StartCall(c, ConcStoreInputs, ConcAdapterInputs, ConcFacadeInputs,
              ConcFacadeUpdateInputs)

\* ---------------------------------------------------------- specifications
InitStores ==
    /\ items = [n \in Nodes |-> EmptyStore]
    /\ lock = [n \in Nodes |-> NoOwner]
    /\ th = [c \in Clients |-> Idle]

\* The nodes of the test cluster have no logger endpoint.
NoLogger == [n \in Nodes |-> None]

\* The facades of the test cluster.
TestClients == [f \in Facades |-> NewClient(Endpoints)]

Init ==
    /\ InitStores
    /\ logger = NoLogger
    /\ client = TestClients
    /\ heap = EmptyHeap
    /\ ledger = [on |-> FALSE, acct |-> [n \in Nodes |-> EmptyStore]]

\* One client, every layer, the full range of arguments.
Next ==
    \E c \in {"c1"} :
        \/ Call(c)
        \/ Acquire(c)
        \/ Check(c)
        \/ Apply(c)
        \/ Respond(c)
        \/ FacadeUpdate(c)
        \/ QueryAdded(c)
        \/ Return(c)

Spec == Init /\ [][Next]_vars

InitConc ==
    /\ InitStores
    /\ logger = NoLogger
    /\ client = TestClients
    /\ heap = EmptyHeap
    /\ ledger = [on |-> TRUE, acct |-> [n \in Nodes |-> EmptyStore]]

\* Two clients whose calls interleave at every step.
NextConc ==
    \E c \in Clients :
        \/ ConcCall(c)
        \/ Acquire(c)
        \/ Check(c)
        \/ Apply(c)
        \/ Respond(c)
        \/ FacadeUpdate(c)
        \/ Return(c)

SpecConc == InitConc /\ [][NextConc]_vars

\* One client that reaches the nodes through the facade only.
RoutedCall(c) ==
    /\ th[c].pc = "idle"
    /\ \/ \E x \in FacadeInputs :
            FacadeCall(c, x.op, x.sku, Some(x.name), Some(x.description),
                       Some(x.quantity), x.amount, x.meta)
       \/ \E x \in FacadeUpdateInputs :
            FacadeUpdateCall(c, x.sku, x.name, x.description, x.quantity, x.meta)

NextRouted ==
    \E c \in {"c1"} :
        \/ RoutedCall(c)
        \/ Acquire(c)
        \/ Check(c)
        \/ Apply(c)
        \/ Respond(c)
        \/ FacadeUpdate(c)
        \/ Return(c)

SpecRouted == Init /\ [][NextRouted]_vars

\* One client calling the handlers of a node that has a logger endpoint or
\* none; the collaborator answers each event in one of its ways, or not at
\* all.
LogSkus == {SkuBsp}

LogAdapterInputs ==
    AdapterInputsOver(LogSkus, {"n1"}, {"d1"}, {<<>>, <<<<KeyClientIp, StrIp>>>>})

LogCall(c) ==
    /\ th[c].pc = "idle"
    /\ \E n \in DirectNodes, x \in LogAdapterInputs :
         AdapterCall(c, n, x.op,
                     Args(x.sku, Some(x.name), Some(x.description), Some(x.quantity),
                          x.amount), x.meta)

InitLog ==
    /\ InitStores
    /\ logger \in [Nodes -> {None, LoggerEndpoint}]
    /\ client = TestClients
    /\ heap = EmptyHeap
    /\ ledger = [on |-> FALSE, acct |-> [n \in Nodes |-> EmptyStore]]

NextLog ==
    \E c \in {"c1"} :
        \/ LogCall(c)
        \/ Acquire(c)
        \/ Check(c)
        \/ Apply(c)
        \/ Respond(c)
        \/ LogReply(c)
        \/ Return(c)

SpecLog == InitLog /\ [][NextLog]_vars

\* The steps of the program itself: a thread that can run does run.  The
\* collaborator's answer is not among them.
ProgramStep ==
    \E c \in Clients :
        Acquire(c) \/ Check(c) \/ Apply(c) \/ Respond(c) \/ Return(c)

SpecLogFair == InitLog /\ [][NextLog]_vars /\ WF_vars(ProgramStep)

\* Two facades built from one ordered endpoint list of any length from 1 to
\* MaxEndpoints, on which close, endpoint_for_sku and operations are called
\* in any order.
EndpointPool ==
    <<"endpoint-a", "endpoint-b", "endpoint-c", "endpoint-d", "endpoint-e", "endpoint-f">>
EndpointLists == { SubSeq(EndpointPool, 1, n) : n \in 1..MaxEndpoints }

\* The closers of a facade with n connections: none raises, or the closer of
\* the first or of the last connection does.
RaisingSets(n) == {{}, {1}, {n}}

InitClient ==
    /\ InitStores
    /\ logger = NoLogger
    /\ ledger = [on |-> FALSE, acct |-> [n \in Nodes |-> EmptyStore]]
    /\ heap = EmptyHeap
    /\ \E endpoints \in EndpointLists :
         \E raising \in RaisingSets(Len(endpoints)) :
            client = [f \in Facades |-> [NewClient(endpoints) EXCEPT !.raising = raising]]

NextClient ==
    \E f \in Facades :
        \/ Close(f)
        \/ ExitWith(f)
        \/ \E sku \in RouteSkus : Route(f, sku)
        \/ \E sku \in RouteSkus : Dispatch(f, sku)

SpecClient == InitClient /\ [][NextClient]_vars

\* One caller of one store that keeps and changes the Item objects it
\* passed and was returned.
NextRef ==
    \/ RefAdd
    \/ RefAddQuantity
    \/ RefAddLocked
    \/ RefUpdate
    \/ RefTake
    \/ RefQuery
    \/ MutateReturned
    \/ MutateArgument

SpecRef == Init /\ [][NextRef]_vars

\* Two clients that each call add once, at the store or through the adapter
\* of one node, with valid arguments and while the trimmed sku is not stored,
\* and keep the result; "B", "B " and "B" after a vertical tab or after an em
\* space are four strings for the one key "B".
RaceSkus == {SkuB, SkuBsp, SkuVtB, SkuEmB, SkuA}

RaceInputs ==
    [sku : RaceSkus, name : {"n1", "n2"}, description : {"d1"}, quantity : {0, MaxQty}]

RaceCall(c) ==
    /\ th[c].pc = "idle"
    /\ \E n \in DirectNodes, x \in RaceInputs :
         /\ Strip(x.sku) \notin DOMAIN items[n]
         /\ \/ StoreCall(c, n, "add",
                         Args(x.sku, Some(x.name), Some(x.description), Some(x.quantity), 0))
            \/ AdapterCall(c, n, "add",
                           Args(x.sku, Some(x.name), Some(x.description),
                                Some(x.quantity), 0), <<>>)

NextRace ==
    \E c \in Clients :
        \/ RaceCall(c)
        \/ Acquire(c)
        \/ Check(c)
        \/ Apply(c)
        \/ Respond(c)

SpecRace == InitConc /\ [][NextRace]_vars

\* One client that works through the facade object f1 of the test cluster,
\* which may be closed at any time: add_item, take_item and query_item pick
\* their stub with _stub_for, and the stub of an endpoint reaches the node
\* that serves the endpoint.
NodeOf(stub) == (CHOOSE i \in 1..Len(Endpoints) : Endpoints[i] = stub) - 1

ViaInputs ==
    { x \in FacadeInputsOver(RouteSkus, {"n1"}, {"d1"}) :
        /\ x.op = "add" => x.quantity \in {0, MaxQty}
        /\ x.op = "take" => x.amount \in 1..MaxQty }

ViaCall(c, f) ==
    /\ th[c].pc = "idle"
    /\ \E x \in ViaInputs :
         LET stub == StubOf(client[f], x.sku) IN
         /\ client' = [client EXCEPT ![f].sent[x.sku] = @ \cup {stub}]
         /\ IF \E i \in 1..Len(Endpoints) : Endpoints[i] = stub
            THEN th' = [th EXCEPT ![c] =
                          Enter("facade", x.op, NodeOf(stub),
                                FacadeRequest(x.op, x.sku, Some(x.name), Some(x.description),
                                              Some(x.quantity), x.amount),
                                x.meta, FCall(x.op, None, None, None, x.meta, None), None)]
            ELSE th' = th
    /\ UNCHANGED <<items, lock, ledger, logger, heap>>

NextVia ==
    \/ Close("f1")
    \/ \E c \in {"c1"} :
         \/ ViaCall(c, "f1")
         \/ Acquire(c)
         \/ Check(c)
         \/ Apply(c)
         \/ Respond(c)
         \/ Return(c)

SpecVia == Init /\ [][NextVia]_vars

\* Two clients of one store that holds up to two items: add, update, take,
\* query and clear with valid arguments, interleaved at every step.
ClearSkus == {SkuA, SkuB}

ClearInputs ==
    { x \in StoreInputsOver(ClearSkus, {None, Some("n1")}, {None, Some("d1")}) :
        /\ x.op = "add" => Val(x.quantity) = MaxQty
        /\ x.op = "update" =>
             x.name = None /\ x.description = None /\ x.quantity = Some(0)
        /\ x.op = "take" => x.amount = MaxQty }

ClearCall(c) ==
    /\ th[c].pc = "idle"
    /\ \E n \in DirectNodes, x \in ClearInputs :
         StoreCall(c, n, x.op, Args(x.sku, x.name, x.description, x.quantity, x.amount))

NextClear ==
    \E c \in Clients :
        \/ ClearCall(c)
        \/ Acquire(c)
        \/ Check(c)
        \/ Apply(c)
        \/ Return(c)

SpecClear == Init /\ [][NextClear]_vars

\* Two callers of one store that each make one call, of any method and with
\* valid or invalid arguments, and keep its result.  A caller that can take
\* a step of its method takes one: it is scheduled, and it gets the lock when
\* the lock stays free.
OnceInputs == StoreInputsOver({SkuB, SkuBlank}, {Some("n1")}, {Some("d1")})

OnceCall(c) ==
    /\ th[c].pc = "idle"
    /\ \E n \in DirectNodes, x \in OnceInputs :
         StoreCall(c, n, x.op, Args(x.sku, x.name, x.description, x.quantity, x.amount))

NextOnce ==
    \E c \in Clients :
        \/ OnceCall(c)
        \/ Acquire(c)
        \/ Check(c)
        \/ Apply(c)

StoreStep(c) == Acquire(c) \/ Check(c) \/ Apply(c)

SpecOnceFair ==
    Init /\ [][NextOnce]_vars /\ \A c \in Clients : WF_vars(StoreStep(c))

\* The construction of a facade, one loop iteration of __init__ at a time:
\* the endpoint list it was given, where it is (phase "none": not yet
\* constructed, "building": inside the loop, "built": __init__ returned,
\* "failed": __init__ raised error), the endpoints still to open (todo) and
\* the object with the lists filled so far.  The stub factory returns a stub
\* and a closer for an endpoint, or raises.
FactoryError == "FactoryError"

Building(given, phase, todo, error, obj) ==
    [given |-> given, phase |-> phase, todo |-> todo, error |-> error, obj |-> obj]

Unbuilt == Building(<<>>, "none", <<>>, NoError, NewClient(<<>>))

\* __init__, lines 26-31: an empty endpoint list raises ValueError before
\* anything is opened; otherwise the three lists start empty.
InitClientObject(endpoints) ==
    IF endpoints = <<>>
    THEN Building(endpoints, "failed", <<>>, ValueError, NewClient(<<>>))
    ELSE Building(endpoints, "building", endpoints, NoError, NewClient(<<>>))

\* __init__, lines 40-42: the stub, the endpoint and the closer of a newly
\* opened connection are appended.
Opened(obj, endpoint) ==
    [obj EXCEPT !.stubs = Append(@, endpoint),
                !.endpoints = Append(@, endpoint),
                !.closers = Append(@, Len(@) + 1),
                !.calls = Append(@, 0)]

\* __init__, lines 33-42: one iteration of the loop.  When the factory
\* raises, the exception leaves __init__ at line 35.
OpenStep(b, raises) ==
    IF raises
    THEN [b EXCEPT !.phase = "failed", !.error = FactoryError]
    ELSE [b EXCEPT !.obj = Opened(@, Head(b.todo)),
                   !.todo = Tail(@),
                   !.phase = IF Tail(b.todo) = <<>> THEN "built" ELSE "building"]

BuildLists == { SubSeq(EndpointPool, 1, n) : n \in 0..MaxEndpoints }

\* DistributedInventoryClient(endpoints, stub_factory=...) is called.
Construct(f) ==
    /\ client[f].phase = "none"
    /\ \E endpoints \in BuildLists :
         client' = [client EXCEPT ![f] = InitClientObject(endpoints)]
    /\ UNCHANGED <<items, lock, th, ledger, logger, heap>>

\* The loop of __init__ opens the connection of the next endpoint.
OpenNext(f) ==
    /\ client[f].phase = "building"
    /\ \E raises \in BOOLEAN :
         client' = [client EXCEPT ![f] = OpenStep(@, raises)]
    /\ UNCHANGED <<items, lock, th, ledger, logger, heap>>

\* close() or the exit of the with-block, on a facade that was constructed.
CloseBuilt(f) ==
    /\ client[f].phase = "built"
    /\ client[f].obj.closes < MaxCloses
    /\ client' = [client EXCEPT ![f].obj = CloseClient(@)]
    /\ UNCHANGED <<items, lock, th, ledger, logger, heap>>

InitBuild ==
    /\ InitStores
    /\ logger = NoLogger
    /\ ledger = [on |-> FALSE, acct |-> [n \in Nodes |-> EmptyStore]]
    /\ heap = EmptyHeap
    /\ client = [f \in Facades |-> Unbuilt]

NextBuild ==
    \E f \in Facades :
        \/ Construct(f)
        \/ OpenNext(f)
        \/ CloseBuilt(f)

SpecBuild == InitBuild /\ [][NextBuild]_vars

\* ------------------------------------------------------------------ claims
\* The key a thread's store method works on, and the store it works in.
KeyOf(t) == Strip(t.req.sku)
StoreOf(t) == items[t.node]
Failed(r) == r.err \notin {NoError, "pending"}
Returned(t) == t.pc \in {"log", "logwait", "fupdate", "done"}

\* C1: in every reachable state, under every interleaving of two clients'
\* add, update, take, query and clear calls at the store, the adapter and the
\* facade, every stored item has quantity >= 0.
C1_QuantityNonNegative ==
    \A n \in Nodes : \A k \in DOMAIN items[n] : items[n][k].quantity >= 0

\* Two takes met on one item: one emptied it, the other was refused.
C1_Witness ==
    /\ th["c1"].op = "take" /\ th["c1"].pc = "done" /\ th["c1"].res.err = NoError
    /\ th["c2"].op = "take" /\ th["c2"].pc = "done"
    /\ th["c2"].res.err = InsufficientQuantityError
    /\ th["c1"].node = th["c2"].node
    /\ KeyOf(th["c1"]) \in DOMAIN StoreOf(th["c1"])
    /\ StoreOf(th["c1"])[KeyOf(th["c1"])].quantity = 0

\* C2: for an item whose quantity was last written as q, the amounts of the
\* takes that succeeded since then sum to at most q, and the stored quantity
\* is q minus that sum, under every interleaving of concurrent takes.
C2_TakesWithinStock ==
    \A n \in Nodes :
        /\ DOMAIN ledger.acct[n] = DOMAIN items[n]
        /\ \A k \in DOMAIN items[n] :
              /\ ledger.acct[n][k].taken <= ledger.acct[n][k].base
              /\ items[n][k].quantity = ledger.acct[n][k].base - ledger.acct[n][k].taken

\* Two clients' takes both succeeded on an item of quantity MaxQty, one of
\* them while the other was inside its own take, and used the stock up.
C2_Witness ==
    /\ th["c1"].op = "take" /\ th["c1"].pc = "done" /\ th["c1"].res.err = NoError
    /\ th["c2"].op = "take" /\ th["c2"].pc = "log" /\ th["c2"].res.err = NoError
    /\ th["c1"].node = th["c2"].node /\ KeyOf(th["c1"]) = KeyOf(th["c2"])
    /\ KeyOf(th["c1"]) \in DOMAIN ledger.acct[th["c1"].node]
    /\ LET acct == ledger.acct[th["c1"].node][KeyOf(th["c1"])] IN
         /\ acct.base = MaxQty
         /\ acct.taken = th["c1"].req.amount + th["c2"].req.amount
         /\ acct.taken = acct.base

\* C3: a take of more than the stored quantity q fails with
\* InsufficientQuantityError, FAILED_PRECONDITION at the adapter, returns no
\* item and leaves every store as it was, so the quantity is still q.
C3_TakeTooMuchFails ==
    [][\A c \in Clients :
         LET t == th[c] IN
         (/\ t.pc = "check" /\ t.op = "take"
          /\ KeyOf(t) \in DOMAIN StoreOf(t)
          /\ StoreArgs(t).amount > StoreOf(t)[KeyOf(t)].quantity
          /\ th'[c] # t)
         => /\ th'[c].res = Result(InsufficientQuantityError, None)
            /\ Returned(th'[c])
            /\ t.layer # "store" => StatusCode(t.op, th'[c].res.err) = "FAILED_PRECONDITION"
            /\ items' = items]_vars

\* A facade take of 2 from an item of quantity 1 was refused, and the item
\* still has quantity 1.
C3_Witness ==
    \E c \in Clients :
        LET t == th[c] IN
        /\ t.layer = "facade" /\ t.op = "take" /\ t.pc = "done"
        /\ t.res.err = InsufficientQuantityError
        /\ t.req.amount = 2
        /\ KeyOf(t) \in DOMAIN StoreOf(t)
        /\ StoreOf(t)[KeyOf(t)].quantity = 1

\* C4: a take of an amount with 0 < amount <= q from a stored item of
\* quantity q passes the checks and succeeds; the stored quantity becomes
\* q - amount, the returned item is the stored item with that quantity, and
\* sku, name and description are unchanged.
C4_TakeSucceeds ==
    [][\A c \in Clients :
         LET t == th[c]
             k == KeyOf(t) IN
         /\ (/\ t.pc = "check" /\ t.op = "take" /\ k \in DOMAIN StoreOf(t)
             /\ 0 < StoreArgs(t).amount
             /\ StoreArgs(t).amount <= StoreOf(t)[k].quantity
             /\ th'[c] # t)
            => th'[c].pc = "apply" /\ items' = items
         /\ (t.pc = "apply" /\ t.op = "take" /\ th'[c] # t)
            => /\ k \in DOMAIN StoreOf(t)
               /\ items'[t.node] =
                    [StoreOf(t) EXCEPT ![k].quantity = @ - StoreArgs(t).amount]
               /\ th'[c].res = Result(NoError, Some(items'[t.node][k]))
               /\ items'[t.node][k].quantity >= 0]_vars

\* A take of the whole stock (amount = q = MaxQty) succeeded and returned
\* the item with quantity 0.
C4_Witness ==
    \E c \in Clients :
        LET t == th[c] IN
        /\ t.op = "take" /\ t.pc = "done" /\ t.res.err = NoError
        /\ t.req.amount = MaxQty
        /\ Val(t.res.item).quantity = 0
        /\ Val(t.res.item).name = "n1"
        /\ StoreOf(t)[KeyOf(t)] = Val(t.res.item)

\* C5: whenever a call fails with an error, at the store, through the
\* adapter or through the facade, every node's SKU-to-item mapping is what it
\* was before the call.
C5_FailureChangesNothing ==
    [][\A c \in Clients :
         (th[c].res = Pending /\ Failed(th'[c].res)) => items' = items]_vars

\* C6: the UpdateItem of a facade update_item that omitted the quantity
\* writes the quantity its query returned, whatever the store holds when the
\* write happens, so a take or update that succeeded in between is lost.
C6_UpdateWritesBackQueriedQuantity ==
    [][\A c \in Clients :
         LET t == th[c]
             k == KeyOf(t) IN
         (/\ t.pc = "apply" /\ t.op = "update"
          /\ t.fcall.op = "update" /\ t.fcall.quantity = None
          /\ th'[c] # t /\ th'[c].res.err = NoError)
         => /\ items'[t.node][k].quantity = Val(t.fcall.current).quantity
            /\ Val(th'[c].res.item).quantity = Val(t.fcall.current).quantity]_vars

\* Client c1's update_item queried the item, client c2's take then succeeded
\* on it, and c1's write replaced the quantity the take had left by the
\* quantity c1 had queried.
C6_Witness ==
    LET A == th["c1"]
        B == th["c2"] IN
    /\ A.fcall.op = "update" /\ A.op = "update" /\ A.fcall.quantity = None
    /\ A.pc = "done" /\ A.res.err = NoError
    /\ B.op = "take" /\ B.pc = "done" /\ B.res.err = NoError
    /\ A.node = B.node /\ KeyOf(A) = KeyOf(B)
    /\ KeyOf(A) \in DOMAIN StoreOf(A)
    /\ LET read == Val(A.fcall.current).quantity
           left == Val(B.res.item).quantity
           acct == ledger.acct[A.node][KeyOf(A)] IN
         /\ left = read - B.req.amount
         /\ left # read
         /\ acct.over = Some(left)
         /\ acct.base = read /\ acct.taken = 0
         /\ StoreOf(A)[KeyOf(A)].quantity = read

\* C7: when the caller of the facade's update_item supplied a quantity v,
\* the UpdateItem call carries v and ends its metadata with the forcing
\* marker; with no other client, the call succeeds for every v >= 0, v = 0
\* included, returns an item of quantity v and leaves v stored.
C7_SuppliedQuantityIsForced ==
    \A c \in Clients :
        LET t == th[c] IN
        (t.fcall.op = "update" /\ t.op = "update" /\ IsSome(t.fcall.quantity))
        => /\ Len(t.meta) > 0
           /\ t.meta[Len(t.meta)] = <<KeyUpdateQuantity, StrTrue>>
           /\ t.req.quantity = t.fcall.quantity
           /\ (Returned(t) /\ Val(t.fcall.quantity) >= 0)
              => /\ t.res.err = NoError
                 /\ Val(t.res.item).quantity = Val(t.fcall.quantity)
                 /\ KeyOf(t) \in DOMAIN StoreOf(t)
                 /\ StoreOf(t)[KeyOf(t)].quantity = Val(t.fcall.quantity)

\* update_item(sku, quantity=0), called with metadata update-quantity=false
\* on an item of quantity MaxQty, succeeded and left 0 stored.
C7_Witness ==
    \E c \in Clients :
        LET t == th[c] IN
        /\ t.fcall.op = "update" /\ t.op = "update" /\ t.pc = "done"
        /\ t.res.err = NoError
        /\ t.fcall.quantity = Some(0)
        /\ t.fcall.meta = <<<<KeyUpdateQuantity, StrFalse>>>>
        /\ Val(t.fcall.current).quantity = MaxQty
        /\ StoreOf(t)[KeyOf(t)].quantity = 0
        /\ Val(t.res.item).quantity = 0

\* A call carries the forcing marker: a pair whose key is update-quantity
\* and whose value is 1, true or yes, both compared without case.
HasForcingMarker(md) ==
    \E i \in 1..Len(md) :
        /\ Lower(md[i][1]) = <<117, 112, 100, 97, 116, 101, 45, 113, 117, 97, 110, 116, 105, 116, 121>>
        /\ Lower(md[i][2]) \in {<<49>>, <<116, 114, 117, 101>>, <<121, 101, 115>>}

\* C8: a successful UpdateItem whose request has quantity 0 leaves the stored
\* quantity unchanged when the call carries no forcing marker and sets it to
\* 0 when it carries one; a request with a non-zero quantity sets that
\* quantity with or without the marker.
C8_ZeroQuantityNeedsMarker ==
    [][\A c \in Clients :
         LET t == th[c]
             k == KeyOf(t) IN
         (/\ t.pc = "apply" /\ t.op = "update" /\ t.layer # "store"
          /\ th'[c] # t /\ th'[c].res.err = NoError)
         => LET q == Val(t.req.quantity)
                old == items[t.node][k].quantity
                new == items'[t.node][k].quantity IN
            /\ (q = 0 /\ ~HasForcingMarker(t.meta)) => new = old
            /\ (q = 0 /\ HasForcingMarker(t.meta)) => new = 0
            /\ q # 0 => new = q
            /\ Val(th'[c].res.item).quantity = new]_vars

\* An UpdateItem with quantity 0, a new name and no forcing marker succeeded:
\* the name was replaced and the item still has quantity MaxQty.
C8_Witness ==
    \E c \in Clients :
        LET t == th[c] IN
        /\ t.layer = "adapter" /\ t.op = "update" /\ t.pc = "done"
        /\ t.res.err = NoError
        /\ t.req.quantity = Some(0) /\ t.req.name = Some("n1")
        /\ ~HasForcingMarker(t.meta)
        /\ Val(t.res.item).quantity = MaxQty
        /\ StoreOf(t)[KeyOf(t)] = Val(t.res.item)
        /\ Val(t.res.item).name = "n1"

\* C9: a successful update_item of the store sets each of name, description
\* and quantity that was provided (an empty string and a zero included),
\* keeps each omitted one and the sku, returns the item as stored, and
\* changes no other item of the node and no other node.
C9_UpdateOverwritesProvidedFields ==
    [][\A c \in Clients :
         LET t == th[c]
             k == KeyOf(t) IN
         (/\ t.pc = "apply" /\ t.op = "update" /\ t.layer = "store"
          /\ th'[c] # t /\ th'[c].res.err = NoError)
         => LET a == t.req
                old == items[t.node][k]
                new == items'[t.node][k] IN
            /\ new.sku = old.sku
            /\ new.name = IF a.name = None THEN old.name ELSE Val(a.name)
            /\ new.description =
                 IF a.description = None THEN old.description ELSE Val(a.description)
            /\ new.quantity = IF a.quantity = None THEN old.quantity ELSE Val(a.quantity)
            /\ th'[c].res.item = Some(new)
            /\ DOMAIN items'[t.node] = DOMAIN items[t.node]
            /\ \A k2 \in DOMAIN items[t.node] \ {k} :
                 items'[t.node][k2] = items[t.node][k2]
            /\ \A n \in Nodes \ {t.node} : items'[n] = items[n]]_vars

\* update_item(sku, name="", quantity=0) with the description omitted
\* succeeded on a node that also holds item A: name and quantity were set,
\* the description is still "d1" and item A is as it was added.
C9_Witness ==
    \E c \in Clients :
        LET t == th[c] IN
        /\ t.layer = "store" /\ t.op = "update" /\ t.pc = "done"
        /\ t.res.err = NoError
        /\ t.req.name = Some("") /\ t.req.description = None
        /\ t.req.quantity = Some(0)
        /\ StoreOf(t)[KeyOf(t)] = Item(KeyOf(t), "", "d1", 0)
        /\ t.res.item = Some(StoreOf(t)[KeyOf(t)])
        /\ SkuA \in DOMAIN StoreOf(t)
        /\ StoreOf(t)[SkuA] =
             Item(SkuA, Bystander.name, Bystander.description, Bystander.quantity)

\* C10: a query made right after a successful add, with the sku string that
\* was passed to the add, succeeds and returns the added name, description
\* and quantity with the trimmed sku, at the store, through the adapter and
\* through the facade.
C10_AddThenQueryReturnsItem ==
    \A c \in Clients :
        LET t == th[c] IN
        (IsSome(t.prev) /\ Returned(t))
        => LET added == Val(t.prev) IN
           t.res = Result(NoError,
                          Some([sku |-> Strip(added.sku), name |-> Val(added.name),
                                description |-> Val(added.description),
                                quantity |-> Val(added.quantity)]))

\* The facade's add_item of sku "B " with quantity MaxQty, then its
\* query_item("B "), returned the item under sku "B".
C10_Witness ==
    \E c \in Clients :
        LET t == th[c] IN
        /\ IsSome(t.prev) /\ t.layer = "facade" /\ t.op = "query" /\ t.pc = "done"
        /\ Val(t.prev).sku = SkuBsp
        /\ t.res.err = NoError
        /\ Val(t.res.item) = Item(SkuB, "n1", "d1", MaxQty)

\* C11 as stated: an add whose trimmed sku is already on the node fails
\* with AlreadyExists whatever its name, description and quantity.
C11_DuplicateAddAlwaysAlreadyExists ==
    [][\A c \in Clients :
         LET t == th'[c] IN
         (/\ th[c].res = Pending /\ t.res # Pending /\ t.op = "add"
          /\ KeyOf(t) \in DOMAIN items[t.node])
         => t.res.err = ItemAlreadyExistsError]_vars

\* C11, amended: an add whose trimmed sku is already on the node never
\* succeeds and leaves every store unchanged; it fails with AlreadyExists
\* (ALREADY_EXISTS at the adapter) whatever its name, description and
\* quantity >= 0, and with an invalid-argument error (INVALID_ARGUMENT) when
\* its quantity is negative.
C11_DuplicateAddFails ==
    [][\A c \in Clients :
         LET t == th'[c] IN
         (/\ th[c].res = Pending /\ t.res # Pending /\ t.op = "add"
          /\ KeyOf(t) \in DOMAIN items[t.node])
         => /\ items' = items
            /\ t.res.item = None
            /\ t.res.err = IF Val(t.req.quantity) < 0 THEN ValueError
                            ELSE ItemAlreadyExistsError
            /\ t.layer # "store" =>
                 StatusCode(t.op, t.res.err) =
                   IF Val(t.req.quantity) < 0 THEN "INVALID_ARGUMENT" ELSE "ALREADY_EXISTS"]_vars

\* AddItem with sku "B ", an empty name and quantity 0 was refused with
\* AlreadyExists on the node that holds item "B" with name "n1" and quantity
\* MaxQty, and the item is as it was.
C11_Witness ==
    \E c \in Clients :
        LET t == th[c] IN
        /\ t.layer = "adapter" /\ t.op = "add" /\ t.pc = "done"
        /\ t.res = Result(ItemAlreadyExistsError, None)
        /\ t.req.sku = SkuBsp /\ t.req.name = Some("") /\ t.req.quantity = Some(0)
        /\ SkuB \in DOMAIN StoreOf(t)
        /\ StoreOf(t)[SkuB] = Item(SkuB, "n1", "d1", MaxQty)

\* A whole store method run at once on one value of the store: the
\* validation, the checks and the writes with nothing in between.
SeqOp(op, a, store) ==
    IF PreLock(op, a) # NoError
    THEN [store |-> store, res |-> Result(PreLock(op, a), None)]
    ELSE IF LockedCheck(op, a, store) # NoError
    THEN [store |-> store, res |-> Result(LockedCheck(op, a, store), None)]
    ELSE LockedApply(op, a, store)

\* C12: at most one thread is inside the locked section of a node's store,
\* and it owns the node's lock; a store changes only in a step of the thread
\* inside it; and every call takes effect at one step between its start and
\* its return, where its result and the store it leaves are those of the
\* whole method run at once on the store of that moment.
C12_MutualExclusionAndLinearizable ==
    [][/\ \A c \in Clients :
            th[c].pc \in {"check", "apply"} =>
              /\ lock[th[c].node] = c
              /\ \A d \in Clients \ {c} :
                   ~(th[d].pc \in {"check", "apply"} /\ th[d].node = th[c].node)
       /\ \A n \in Nodes :
            items'[n] # items[n] =>
              /\ lock[n] \in Clients
              /\ th[lock[n]].pc = "apply" /\ th'[lock[n]].pc # "apply"
       /\ \A c \in Clients :
            LET t == th'[c] IN
            (th[c].res = Pending /\ t.res # Pending)
            => LET r == SeqOp(t.op, StoreArgs(t), items[t.node]) IN
               /\ t.res = r.res
               /\ items' = [items EXCEPT ![t.node] = r.store]]_vars

\* Client c1 is inside take_item with the lock of the node while client c2
\* waits for that lock to take from the same item.
C12_Witness ==
    /\ th["c1"].pc = "apply" /\ th["c1"].op = "take"
    /\ th["c2"].pc = "wait" /\ th["c2"].op = "take"
    /\ th["c1"].node = th["c2"].node /\ KeyOf(th["c1"]) = KeyOf(th["c2"])
    /\ lock[th["c1"].node] = "c1"
    /\ StoreOf(th["c1"])[KeyOf(th["c1"])].quantity = th["c1"].req.amount
    /\ th["c2"].req.amount = th["c1"].req.amount

\* C13: a remote call that has ended has either the code OK with the item
\* of the response, or no item and the one code of its store error: invalid
\* argument -> INVALID_ARGUMENT, AlreadyExists -> ALREADY_EXISTS, NotFound ->
\* NOT_FOUND, InsufficientQuantity -> FAILED_PRECONDITION; and the code is
\* among those the method can fail with.
C13_ErrorsMapToStatusCodes ==
    \A c \in Clients :
        LET t == th[c] IN
        (t.layer \in {"adapter", "facade"} /\ t.pc \in {"done", "fupdate"})
        => \/ /\ t.res.err = NoError
              /\ t.out.code = "OK" /\ IsSome(t.out.item) /\ t.out.item = t.res.item
           \/ /\ t.res.err # NoError /\ t.out.item = None
              /\ t.out.code =
                   CASE t.res.err = "ValueError" -> "INVALID_ARGUMENT"
                     [] t.res.err = "ItemAlreadyExistsError" -> "ALREADY_EXISTS"
                     [] t.res.err = "ItemNotFoundError" -> "NOT_FOUND"
                     [] t.res.err = "InsufficientQuantityError" -> "FAILED_PRECONDITION"
                     [] OTHER -> "unmapped"
              /\ t.out.code \in
                   CASE t.op = "add" -> {"INVALID_ARGUMENT", "ALREADY_EXISTS"}
                     [] t.op \in {"update", "query"} -> {"INVALID_ARGUMENT", "NOT_FOUND"}
                     [] OTHER -> {"INVALID_ARGUMENT", "NOT_FOUND", "FAILED_PRECONDITION"}

\* A TakeItem of more than the stock ended with FAILED_PRECONDITION and no
\* item.
C13_Witness ==
    \E c \in Clients :
        LET t == th[c] IN
        /\ t.layer = "adapter" /\ t.op = "take" /\ t.pc = "done"
        /\ t.res.err = InsufficientQuantityError
        /\ t.out = Outcome("FAILED_PRECONDITION", None)

\* C18: whether the node has no logger endpoint, or has one and the
\* collaborator accepts the event, raises an error or cannot be reached, the
\* handler ends with the outcome of its store method (the response item, or
\* the code of the store error), and neither sending the event nor the
\* collaborator's answer changes a store or the store method's result.
C18_LoggingNeverAffectsTheCall ==
    [][\A c \in Clients :
         LET t == th[c] IN
         /\ (t.pc \in {"log", "logwait"} /\ th'[c] # t)
            => /\ items' = items
               /\ th'[c].res = t.res
         /\ (t.pc \in {"log", "logwait"} /\ th'[c].pc \notin {"log", "logwait"})
            => th'[c].out =
                 IF t.res.err = NoError THEN Outcome("OK", t.res.item)
                 ELSE Outcome(StatusCode(t.op, t.res.err), None)]_vars

\* A TakeItem on a node with a logger endpoint sent its event, the
\* collaborator could not be reached, and the call ended with its response:
\* the item with the quantity the take left, which is the stored one.
C18_Witness ==
    \E c \in Clients :
        LET t == th[c] IN
        /\ t.layer = "adapter" /\ t.op = "take" /\ t.pc = "done"
        /\ logger[t.node] # None
        /\ Len(t.log) = 1 /\ t.log[1].success
        /\ t.reply = "unavailable"
        /\ t.out.code = "OK"
        /\ Val(t.out.item).quantity = MaxQty - t.req.amount
        /\ StoreOf(t)[KeyOf(t)] = Val(t.out.item)

\* C19: every remote call that a handler has taken up eventually has its
\* result or its error back at the caller, whatever the collaborator does.
C19_EveryCallReturns ==
    \A c \in Clients :
        (th[c].layer = "adapter") ~> (th[c].pc = "done")

\* C14: after any sequence of facade calls, with sku strings that may differ
\* only in surrounding whitespace, no key is in the store of more than one
\* node.
C14_PartitionsDisjoint ==
    \A n1 \in Nodes : \A n2 \in Nodes \ {n1} :
        DOMAIN items[n1] \cap DOMAIN items[n2] = {}

\* C15: on facades built from one ordered endpoint list, every call of
\* endpoint_for_sku(sku) returns the same endpoint, whatever closes,
\* operations and endpoint_for_sku calls on other skus came before or
\* between, and both facades return the same one.
C15_RoutingDeterministic ==
    \A f \in Facades : \A g \in Facades : \A sku \in RouteSkus :
        Cardinality(client[f].routed[sku] \cup client[g].routed[sku]) <= 1

\* Both facades of a two-endpoint list were asked for "B" and for "A",
\* facade f1 also after it was closed and after operations on "B": "B" has
\* one endpoint on both, "A" another.
C15_Witness ==
    /\ Len(client["f1"].endpoints) = 2
    /\ client["f1"].closes >= 1
    /\ client["f1"].sent[SkuB] # {}
    /\ client["f1"].routed[SkuB] = {[index |-> Some(0), endpoint |-> "endpoint-a"]}
    /\ client["f2"].routed[SkuB] = client["f1"].routed[SkuB]
    /\ client["f1"].routed[SkuA] = {[index |-> Some(1), endpoint |-> "endpoint-b"]}
    /\ client["f2"].routed[SkuA] = client["f1"].routed[SkuA]

\* C16: for every endpoint list of length n from 1 to MaxEndpoints and
\* every sku, the index selected is in 0..n-1 and the endpoint returned is
\* an element of the list.
C16_EndpointWithinList ==
    \A f \in Facades : \A sku \in RouteSkus : \A r \in client[f].routed[sku] :
        /\ IsSome(r.index)
        /\ Val(r.index) \in 0..(Len(client[f].endpoints) - 1)
        /\ \E i \in 1..Len(client[f].endpoints) : r.endpoint = client[f].endpoints[i]

\* On a list of MaxEndpoints endpoints every sku of the model was routed,
\* and the endpoints returned are of the list.
C16_Witness ==
    /\ Len(client["f1"].endpoints) = MaxEndpoints
    /\ \A sku \in RouteSkus : client["f1"].routed[sku] # {}
    /\ \A sku \in RouteSkus : \A r \in client["f1"].routed[sku] :
         r.endpoint \in {EndpointPool[i] : i \in 1..MaxEndpoints}

\* C17: before the first close (or exit of the with-block) no closer was
\* invoked and every connection has its closer in the list; from the first
\* close on, whatever number of closes follows, every connection's closer
\* was invoked exactly once, the list is empty and the last close raised
\* nothing.
C17_ReleasedExactlyOnce ==
    \A f \in Facades :
        LET cl == client[f]
            n == Len(cl.endpoints) IN
        /\ DOMAIN cl.calls = 1..n
        /\ cl.closes = 0 =>
             /\ \A i \in 1..n : cl.calls[i] = 0
             /\ \A i \in 1..n : Occurrences(cl.closers, i) = 1
        /\ cl.closes >= 1 =>
             /\ \A i \in 1..n : cl.calls[i] = 1
             /\ cl.closers = <<>>
             /\ cl.raised = NoError

\* C20: the store never holds an object its caller holds (the Item passed
\* to add, the Item a call returned), and when the caller changes such an
\* Item the values a query of the store returns stay what they were.
C20_ReturnedItemsAreCopies ==
    [][/\ \A k \in DOMAIN heap'.keys :
            /\ heap'.arg # Some(heap'.keys[k])
            /\ heap'.ret # Some(heap'.keys[k])
       /\ heap'.last \in {"mutate returned", "mutate argument"}
            => View(heap') = View(heap)]_vars

\* The caller changed the name and the quantity of the Item a call returned
\* for sku "B"; the store still has the item with its name and quantity
\* MaxQty.
C20_Witness ==
    /\ heap.last = "mutate returned"
    /\ IsSome(heap.ret)
    /\ heap.objs[Val(heap.ret)] =
         [sku |-> SkuB, name |-> "changed", description |-> "d1", quantity |-> 0]
    /\ SkuB \in DOMAIN heap.keys
    /\ View(heap)[SkuB] = Item(SkuB, "n1", "d1", MaxQty)

\* C21: a take with amount <= 0 and an update with a provided quantity < 0
\* fail with the invalid-argument error for every sku argument, whether or
\* not the sku is in the store.
C21_ValidationBeforeExistence ==
    [][\A c \in Clients :
         LET t == th'[c]
             a == StoreArgs(t) IN
         (/\ th[c].res = Pending /\ t.res # Pending
          /\ \/ t.op = "take" /\ a.amount <= 0
             \/ t.op = "update" /\ IsSome(a.quantity) /\ Val(a.quantity) < 0)
         => t.res.err = ValueError]_vars

\* The clients whose add for key k on node n has its result.
AddsEnded(n, k) ==
    { c \in Clients :
        /\ th[c].op = "add" /\ th[c].node = n /\ KeyOf(th[c]) = k
        /\ th[c].res # Pending }

\* C22: of the adds for one trimmed sku that started on one node while the
\* sku was not stored, exactly one succeeds and every other one fails with
\* AlreadyExists; the item stored, and returned to the add that succeeded, is
\* that add's payload with the trimmed sku.
C22_OneConcurrentAddWins ==
    \A n \in Nodes : \A k \in {Strip(sku) : sku \in RaceSkus} :
        LET ended == AddsEnded(n, k)
            won == { c \in ended : th[c].res.err = NoError } IN
        ended # {} =>
          /\ Cardinality(won) = 1
          /\ \A c \in ended \ won : th[c].res = Result(ItemAlreadyExistsError, None)
          /\ k \in DOMAIN items[n]
          /\ \A c \in won :
               /\ items[n][k] = Item(k, Val(th[c].req.name), Val(th[c].req.description),
                                     Val(th[c].req.quantity))
               /\ th[c].res.item = Some(items[n][k])

\* Client c1 added "B" after a vertical tab with quantity MaxQty and client
\* c2 added "B" with quantity 0, both before either was stored: c2's add was
\* refused and the store holds c1's item under the key "B".
C22_Witness ==
    /\ th["c1"].op = "add" /\ th["c1"].pc = "done" /\ th["c1"].req.sku = SkuVtB
    /\ th["c2"].op = "add" /\ th["c2"].pc = "done" /\ th["c2"].req.sku = SkuB
    /\ th["c1"].node = th["c2"].node
    /\ th["c1"].res.err = NoError
    /\ th["c2"].res = Result(ItemAlreadyExistsError, None)
    /\ th["c2"].req.quantity = Some(0) /\ th["c2"].req.name = Some("n2")
    /\ StoreOf(th["c1"])[SkuB] = Item(SkuB, "n1", "d1", MaxQty)

\* C23: a facade call starts with one remote call to the node selected for
\* its sku: QueryItem for update_item, the method's own call otherwise.  That
\* call's method, node and request stay what they are until it has ended.
\* update_item goes on to UpdateItem, for the same sku on the same node, only
\* when its QueryItem ended with OK; when the QueryItem failed the call ends
\* with the QueryItem's error code and no store has changed.  Every facade
\* call ends with the outcome of its last remote call and issues no further
\* call.
C23_FacadeRemoteCalls ==
    [][\A c \in Clients :
         LET t == th[c]
             u == th'[c]
             selected(sku) == FromBytesMod(Sha256Prefix(sku), Len(Endpoints)) IN
         /\ (t.pc = "idle" /\ u.pc # "idle")
            => /\ u.layer = "facade"
               /\ u.op = IF u.fcall.op = "update" THEN "query" ELSE u.fcall.op
               /\ u.node = selected(u.req.sku)
         /\ t.pc \notin {"idle", "fupdate", "done"}
            => u.op = t.op /\ u.node = t.node /\ u.req = t.req /\ u.fcall = t.fcall
         /\ (t.pc # "fupdate" /\ u.pc = "fupdate")
            => t.fcall.op = "update" /\ t.op = "query" /\ u.out.code = "OK"
         /\ (t.pc = "fupdate" /\ u # t)
            => /\ u.op = "update" /\ u.fcall.op = "update"
               /\ u.req.sku = t.req.sku
               /\ u.node = t.node /\ u.node = selected(u.req.sku)
         /\ (t.pc # "done" /\ u.pc = "done")
            => /\ u.out = IF u.res.err = NoError THEN Outcome("OK", u.res.item)
                          ELSE Outcome(StatusCode(u.op, u.res.err), None)
               /\ (u.fcall.op = "update" /\ u.op = "query") => u.out.code # "OK"
         /\ t.op = "query" => items' = items
         /\ (t.pc = "done" /\ u # t) => u = Idle]_vars

\* update_item("B", name="n1") on a cluster that holds only item "A" ended
\* with the NOT_FOUND of its QueryItem; no UpdateItem followed and item "A"
\* is as it was added.
C23_Witness ==
    \E c \in Clients :
        LET t == th[c] IN
        /\ t.layer = "facade" /\ t.fcall.op = "update" /\ t.fcall.name = Some("n1")
        /\ t.op = "query" /\ t.pc = "done"
        /\ t.req.sku = SkuB
        /\ t.out = Outcome("NOT_FOUND", None)
        /\ items[0] = EmptyStore
        /\ items[1] = (SkuA :> Item(SkuA, Bystander.name, Bystander.description,
                                    Bystander.quantity))

\* The stub list of a facade has the length of its endpoint list and holds,
\* at each index, the stub of the endpoint at that index; every stub an
\* operation on a sku used is the stub of endpoint_for_sku(sku).
Aligned(cl) ==
    /\ Len(cl.stubs) = Len(cl.endpoints)
    /\ \A i \in 1..Len(cl.endpoints) : cl.stubs[i] = cl.endpoints[i]
    /\ \A sku \in RouteSkus :
         cl.sent[sku] \subseteq {ListGet(cl.endpoints, SelectIndexOf(sku, cl.stubs))}

\* C24: during the whole life of a facade, after close too, its stub list
\* and endpoint list are aligned and every operation on a sku goes to the
\* node of endpoint_for_sku(sku); an add_item that succeeds leaves the item on
\* that node, no step removes a key from a node, and a query_item of a sku
\* string succeeds exactly when that node holds the trimmed sku, so an item
\* added through the facade is found by every later query of the same string.
C24_OperationsReachTheRoutedNode ==
    [][/\ \A f \in Facades : Aligned(client'[f])
       /\ \A n \in Nodes : DOMAIN items[n] \subseteq DOMAIN items'[n]
       /\ \A c \in Clients :
            LET u == th'[c]
                endpoint == ListGet(client'["f1"].endpoints,
                                    SelectIndexOf(u.req.sku, client'["f1"].stubs)) IN
            u.layer = "facade" =>
              /\ Endpoints[u.node + 1] = endpoint
              /\ (th[c].res = Pending /\ u.res # Pending /\ u.op = "add"
                  /\ u.res.err = NoError)
                 => KeyOf(u) \in DOMAIN items'[u.node]
              /\ (th[c].res = Pending /\ u.res # Pending /\ u.op = "query"
                  /\ KeyOf(u) # <<>>)
                 => (u.res.err = NoError <=> KeyOf(u) \in DOMAIN items'[u.node])]_vars

\* On the closed facade, query_item("B ") found the item that add_item("B ")
\* had put on the node of endpoint-b, while "B" itself routes to endpoint-a,
\* whose node holds nothing.
C24_Witness ==
    LET t == th["c1"] IN
    /\ client["f1"].closes >= 1
    /\ t.layer = "facade" /\ t.op = "query" /\ t.pc = "done"
    /\ t.req.sku = SkuBsp /\ t.res.err = NoError
    /\ client["f1"].sent[SkuBsp] = {"endpoint-b"}
    /\ client["f1"].sent[SkuB] = {"endpoint-a"}
    /\ SkuB \in DOMAIN items[1]
    /\ items[0] = EmptyStore

\* C25: every step of an adapter or facade call leaves the stores of all
\* nodes but the call's node as they were, and in the store of the call's
\* node leaves every item but the one under the call's trimmed sku as it
\* was and adds no other key; the node of a facade call is the one selected
\* for its sku.
C25_OnlyTheAddressedItemChanges ==
    [][\A c \in Clients :
         LET t == th[c] IN
         (t.layer \in {"adapter", "facade"} /\ th'[c] # t)
         => /\ \A n \in Nodes \ {t.node} : items'[n] = items[n]
            /\ DOMAIN items'[t.node] \subseteq DOMAIN items[t.node] \cup {KeyOf(t)}
            /\ \A k \in DOMAIN items[t.node] \ {KeyOf(t)} :
                 k \in DOMAIN items'[t.node] /\ items'[t.node][k] = items[t.node][k]
            /\ t.layer = "facade" =>
                 t.node = FromBytesMod(Sha256Prefix(t.req.sku), Len(Endpoints))]_vars

\* The facade's take_item("B ", MaxQty) emptied item "B" of node 1; item "A"
\* of that node and item "B" of node 0 are as they were added.
C25_Witness ==
    \E c \in Clients :
        LET t == th[c] IN
        /\ t.layer = "facade" /\ t.op = "take" /\ t.pc = "done"
        /\ t.req.sku = SkuBsp /\ t.req.amount = MaxQty /\ t.res.err = NoError
        /\ t.node = 1
        /\ DOMAIN items[1] = {SkuA, SkuB}
        /\ items[1][SkuB].quantity = 0
        /\ items[1][SkuA] =
             Item(SkuA, Bystander.name, Bystander.description, Bystander.quantity)
        /\ DOMAIN items[0] = {SkuB}
        /\ items[0][SkuB] = Item(SkuB, "n1", "d1", 1)

\* C26: a handler of a node without a logger endpoint sends no event.  A
\* handler of a node with one has sent no event while its store method has
\* not ended, and exactly one from then on: it names the handler, its success
\* flag is true exactly when the store method returned an item, which is
\* when the call ends with OK and a response, and its error message is empty
\* on success and the store error's otherwise.
C26_OneEventPerCall ==
    \A c \in Clients :
        LET t == th[c] IN
        t.layer = "adapter" =>
          /\ logger[t.node] = None => t.log = <<>>
          /\ (logger[t.node] # None /\ t.pc \in {"wait", "check", "apply", "log"})
             => t.log = <<>>
          /\ (logger[t.node] # None /\ t.pc \in {"logwait", "done"})
             => /\ Len(t.log) = 1
                /\ t.res # Pending
                /\ t.log[1].operation = OperationName(t.op)
                /\ t.log[1].success = (t.res.err = NoError)
                /\ t.log[1].success = IsSome(t.res.item)
                /\ t.log[1].error_message = (IF t.res.err = NoError THEN "" ELSE t.res.err)
                /\ t.pc = "done" =>
                     /\ t.log[1].success = (t.out.code = "OK")
                     /\ t.log[1].success = IsSome(t.out.item)

\* A TakeItem of more than the stock on a node with a logger endpoint ended
\* with FAILED_PRECONDITION after one event with success false and the
\* store's InsufficientQuantity error as its message.
C26_Witness ==
    \E c \in Clients :
        LET t == th[c] IN
        /\ t.layer = "adapter" /\ t.op = "take" /\ t.pc = "done"
        /\ logger[t.node] = LoggerEndpoint
        /\ t.out = Outcome("FAILED_PRECONDITION", None)
        /\ Len(t.log) = 1
        /\ ~t.log[1].success
        /\ t.log[1].operation = "TakeItem"
        /\ t.log[1].error_message = InsufficientQuantityError

\* C27: after every step, every key of every store is a non-empty string
\* that neither starts nor ends with whitespace and is the sku of the item
\* stored under it; and a step of an update or a take leaves the key set of
\* every store and the sku of every item as they were.
C27_KeysAreTrimmedSkus ==
    [][/\ \A n \in Nodes : \A k \in DOMAIN items'[n] :
            /\ Len(k) > 0
            /\ k[1] \notin Whitespace /\ k[Len(k)] \notin Whitespace
            /\ items'[n][k].sku = k
       /\ \A c \in Clients :
            (th[c].op \in {"update", "take"} /\ th'[c] # th[c])
            => \A n \in Nodes :
                 /\ DOMAIN items'[n] = DOMAIN items[n]
                 /\ \A k \in DOMAIN items[n] : items'[n][k].sku = items[n][k].sku]_vars

\* update_item("B ", name="", quantity=0) of the store succeeded on the item
\* that is stored under the key "B" with sku "B".
C27_Witness ==
    \E c \in Clients :
        LET t == th[c] IN
        /\ t.layer = "store" /\ t.op = "update" /\ t.pc = "done"
        /\ t.req.sku = SkuBsp /\ t.req.name = Some("") /\ t.req.quantity = Some(0)
        /\ t.res.err = NoError
        /\ DOMAIN items[t.node] = {SkuB}
        /\ items[t.node][SkuB] = Item(SkuB, "", "d1", 0)
        /\ Val(t.res.item).sku = SkuB

\* C28: only the write of clear() takes a key out of a store: every step of
\* add, update, take and query keeps every key of every store.  While a
\* trimmed sku is in a node's store, a query of it on that node succeeds and
\* an add of it fails, with AlreadyExists when the add's arguments are valid
\* (with the invalid-argument error when its quantity is negative).
C28_ItemsStayUntilClear ==
    [][/\ (\E n \in Nodes : ~(DOMAIN items[n] \subseteq DOMAIN items'[n]))
          => \E c \in Clients :
               /\ th[c].op = "clear" /\ th[c].pc = "apply" /\ th'[c].pc # "apply"
               /\ \A n \in Nodes \ {th[c].node} : items'[n] = items[n]
       /\ \A c \in Clients :
            LET u == th'[c] IN
            (/\ th[c].res = Pending /\ u.res # Pending
             /\ KeyOf(u) # <<>> /\ KeyOf(u) \in DOMAIN items[u.node])
            => /\ u.op = "query" => u.res.err = NoError
               /\ u.op = "add" =>
                    u.res.err = IF Val(u.req.quantity) >= 0 THEN ItemAlreadyExistsError
                                ELSE ValueError]_vars

\* add_item("B", quantity=MaxQty) of the store was refused with AlreadyExists:
\* item "B" is still stored, renamed by an update and with quantity 0.
C28_Witness ==
    \E c \in Clients :
        LET t == th[c] IN
        /\ t.layer = "store" /\ t.op = "add" /\ t.pc = "done"
        /\ t.req.sku = SkuB /\ t.req.quantity = Some(MaxQty) /\ t.req.name = Some("n1")
        /\ t.res = Result(ItemAlreadyExistsError, None)
        /\ items[t.node][SkuB] = Item(SkuB, "", "d1", 0)

\* C29: the write of clear() empties its store in one step, made while the
\* caller owns the store's lock and no other thread is inside the store, and
\* clear returns without error; no step takes only some of the keys out of a
\* store.  Every other call gets the result of its whole method run on the
\* store of the step where it takes effect, which is the store before the
\* clear or the empty store.  On a store without the sku (as after clear with
\* no later add) query, update and take with valid arguments fail with
\* NotFound and a valid add succeeds and stores its item.
C29_ClearIsAtomic ==
    [][/\ \A c \in Clients :
            LET t == th[c] IN
            (t.op = "clear" /\ t.pc = "apply" /\ th'[c] # t)
            => /\ lock[t.node] = c
               /\ \A d \in Clients \ {c} :
                    ~(th[d].pc \in {"check", "apply"} /\ th[d].node = t.node)
               /\ items' = [items EXCEPT ![t.node] = EmptyStore]
               /\ th'[c].res = Result(NoError, None)
       /\ \A n \in Nodes :
            ~(DOMAIN items[n] \subseteq DOMAIN items'[n]) => DOMAIN items'[n] = {}
       /\ \A c \in Clients :
            LET u == th'[c]
                a == StoreArgs(u) IN
            (th[c].res = Pending /\ u.res # Pending /\ u.op # "clear")
            => /\ u.res = SeqOp(u.op, a, items[u.node]).res
               /\ items' = [items EXCEPT ![u.node] = SeqOp(u.op, a, items[u.node]).store]
               /\ (KeyOf(u) # <<>> /\ KeyOf(u) \notin DOMAIN items[u.node])
                  => /\ (u.op = "query") => u.res.err = ItemNotFoundError
                     /\ (u.op = "update" /\ (IsSome(a.quantity) => Val(a.quantity) >= 0))
                        => u.res.err = ItemNotFoundError
                     /\ (u.op = "take" /\ a.amount > 0) => u.res.err = ItemNotFoundError
                     /\ (u.op = "add" /\ Val(a.quantity) >= 0)
                        => /\ u.res.err = NoError
                           /\ KeyOf(u) \in DOMAIN items'[u.node]]_vars

\* Client c1's clear() has returned and the store is empty; client c2's
\* take of "B" met the empty store and failed with NotFound.
C29_Witness ==
    /\ th["c1"].op = "clear" /\ th["c1"].pc = "done"
    /\ th["c1"].res = Result(NoError, None)
    /\ th["c2"].op = "take" /\ th["c2"].pc = "done" /\ th["c2"].req.sku = SkuB
    /\ th["c2"].res = Result(ItemNotFoundError, None)
    /\ th["c1"].node = th["c2"].node
    /\ items[th["c1"].node] = EmptyStore

\* C30: a store's lock is owned exactly by the thread that is between its
\* `with self._lock` and the return or raise that ends it, so a call that
\* has returned or raised holds no lock; and every call that entered a store
\* method has its result or its error eventually, whatever the other caller
\* does.
C30_StoreCallsComplete ==
    /\ [](\A c \in Clients : \A n \in Nodes :
            lock[n] = c <=> (th[c].pc \in {"check", "apply"} /\ th[c].node = n))
    /\ \A c \in Clients :
         (th[c].pc \in {"wait", "check", "apply"}) ~> (th[c].pc = "done")

\* Client c1's add_item of "B" returned the item, and client c2's
\* update_item("B", quantity=-1), which waited for c1's lock, raised inside
\* the locked section after the checks: both have ended and the lock is free.
C30_Witness ==
    /\ th["c1"].op = "add" /\ th["c1"].pc = "done"
    /\ th["c1"].req.sku = SkuB /\ th["c1"].res.err = NoError
    /\ th["c2"].op = "update" /\ th["c2"].pc = "done"
    /\ th["c2"].req.sku = SkuB /\ th["c2"].req.quantity = Some(-1)
    /\ th["c2"].res = Result(ValueError, None)
    /\ th["c1"].node = th["c2"].node
    /\ SkuB \in DOMAIN items[th["c1"].node]
    /\ \A n \in Nodes : lock[n] = NoOwner

\* C31: with no other client, when the facade's update_item succeeds, each
\* of name and description that the caller passed, the empty string
\* included, is the stored and the returned value, and each field the caller
\* omitted has the value it had before the write.
C31_NameAndDescriptionUpdatable ==
    [][\A c \in Clients :
         LET t == th[c]
             k == KeyOf(t) IN
         (/\ t.pc = "apply" /\ t.op = "update" /\ t.fcall.op = "update"
          /\ th'[c] # t /\ th'[c].res.err = NoError)
         => LET old == items[t.node][k]
                new == items'[t.node][k]
                f == t.fcall IN
            /\ new.name = IF IsSome(f.name) THEN Val(f.name) ELSE old.name
            /\ new.description =
                 IF IsSome(f.description) THEN Val(f.description) ELSE old.description
            /\ IsSome(f.quantity) \/ new.quantity = old.quantity
            /\ new.sku = old.sku
            /\ th'[c].res.item = Some(new)]_vars

\* C32: when the construction of a facade has failed, every connection it
\* had opened has been released, once; and a construction with an empty
\* endpoint list fails with an error before any connection is opened.
C32_ReleasedOnEveryExitPath ==
    \A f \in Facades :
        LET b == client[f] IN
        /\ b.phase = "failed"
           => \A i \in 1..Len(b.obj.calls) : b.obj.calls[i] = 1
        /\ (b.phase # "none" /\ b.given = <<>>)
           => /\ b.phase = "failed" /\ b.error = ValueError
              /\ b.obj.stubs = <<>> /\ b.obj.closers = <<>>

====
